---- MODULE Spec2Model ----
(***************************************************************************)
(* Verification model of the video-coach browser client.                   *)
(*                                                                         *)
(* Part I  : MeetingPage (frontend/src/pages/MeetingPage.tsx, the variant  *)
(*           with speech synthesis): camera acquisition, WebSocket         *)
(*           lifecycle, frame-capture interval, reconnect timer, teardown. *)
(* Part II : useVoiceDetection (voice activity detector hook).             *)
(*                                                                         *)
(* The browser event loop is single threaded: every action below is one    *)
(* callback (a click handler, a promise continuation, a socket event, a    *)
(* timer callback) run to completion.                                      *)
(***************************************************************************)
EXTENDS Integers, Sequences, FiniteSets, TLC

\* ------------------------------------------------------------------------
\* Bounds
\* ------------------------------------------------------------------------
MaxStarts == 2      \* startStreaming invocations explored
MaxSockets == 2     \* WebSocket objects that may be constructed
MaxSent == 1        \* messages recorded per socket
MaxListens == 2     \* startListening invocations explored
MaxTime == 4        \* last clock value explored
MaxRecognitions == 3 \* startRecognition invocations explored
MaxMsgs == 3        \* inbound WebSocket messages explored
MaxCreates == 3     \* createMeeting invocations explored
MaxClock == 3       \* last value of the page clock explored
MaxTicks == 3       \* frame ticks observed in sendLog
MaxDashStarts == 2  \* startStreaming invocations of a dashboard explored
MaxLoops == 3       \* frame loops of the mock-data dashboard explored
MaxFrames == 4      \* frames of the mock-data dashboard explored

\* Configuration defaults of useVoiceDetection, scaled: energy in units of
\* 0.01, time in units of 1250 ms.
SpeechThreshold == 2
SilenceDuration == 2

\* Constants of MeetingPage, scaled: confidence in units of 0.01.
ConfidenceThreshold == 20   \* kp.confidence > 0.2
RedAbove == 70              \* confidence > 0.7
YellowAbove == 50           \* confidence > 0.5
FeedbackKept == 5           \* slice(0, 5)
LogsKept == 30              \* slice(0, 30)
RedirectDelay == 2          \* setTimeout(..., 2000), in units of 1000 ms
NumKeypoints == 18          \* indices named by pointNames and POSE_PAIRS

Null == 0

\* ------------------------------------------------------------------------
\* Part I : MeetingPage state
\* ------------------------------------------------------------------------
VARIABLES
    mounted,              \* the page instance is mounted (refs to DOM nodes are non-null)
    isStreaming,          \* useState isStreaming
    connectionStatus,     \* useState connectionStatus
    error,                \* useState error (banner), "none" = null
    wsRef,                \* wsRef.current : Null or a socket id
    sockets,              \* every WebSocket constructed so far
    nSockets,             \* number of WebSocket objects constructed
    streamRef,            \* streamRef.current : Null or a stream id
    streams,              \* MediaStream per startStreaming call: "none" | "live" | "stopped"
    frameIntervalRef,     \* frameIntervalRef.current : Null or an interval id
    intervals,            \* setInterval handle per startStreaming call: "none" | "active" | "cleared"
    reconnectTimeoutRef,  \* reconnectTimeoutRef.current : Null or a timer id
    timers,               \* reconnect timers: sequence of records
    videoSrc,             \* videoRef.current.srcObject
    speech,               \* utterance being spoken by window.speechSynthesis, "none" if silent
    starts,               \* startStreaming invocations (async function instances)
    nStarts,              \* number of startStreaming invocations so far
    lastCall              \* last of startStreaming / stopStreaming to be invoked

mpVars == <<mounted, isStreaming, connectionStatus, error, wsRef, sockets, nSockets,
            streamRef, streams, frameIntervalRef, intervals, reconnectTimeoutRef,
            timers, videoSrc, speech, starts, nStarts, lastCall>>

\* ------------------------------------------------------------------------
\* Part II : useVoiceDetection state
\* ------------------------------------------------------------------------
VARIABLES
    vdMounted,            \* the component using the hook is mounted
    vdState,              \* useState {isSpeaking, energy, isListening}
    audioContextRef,      \* audioContextRef.current : Null or an AudioContext id
    audioContexts,        \* AudioContext per startListening call: "none" | "running" | "closed"
    analyserRef,          \* analyserRef.current : Null or the id of the analyser's context
    micStreamRef,         \* streamRef.current of the hook : Null or a stream id
    micStreams,           \* microphone MediaStream per call: "none" | "live" | "stopped"
    animationFrameRef,    \* animationFrameRef.current : Null or the pending frame request of a loop
    loops,                \* analysis loop per call: "none" | "scheduled" | "cancelled" | "ended"
    silenceTimerRef,      \* silenceTimerRef.current : Null or a timer (named by its arming time)
    silenceTimers,        \* pending silence timers, each named by its arming time
    speechStartTimeRef,   \* speechStartTimeRef.current : Null or a time
    listens,              \* startListening invocations (async function instances)
    nListens,             \* number of startListening invocations so far
    now,                  \* Date.now(), in units of half a silenceDuration
    vdCalls,              \* onSpeechStart / onSpeechEnd invocations, in order
    lastLoud,             \* time of the latest analysis with energy above the threshold
    overtaken,            \* startListening calls that were awaiting when stopListening was called
    listening             \* a startListening succeeded and no stopListening was called after it

vdVars == <<vdMounted, vdState, audioContextRef, audioContexts, analyserRef, micStreamRef,
            micStreams, animationFrameRef, loops, silenceTimerRef, silenceTimers,
            speechStartTimeRef, listens, nListens, now, vdCalls, lastLoud, overtaken,
            listening>>

\* ------------------------------------------------------------------------
\* Part III : useSpeechToText state
\* ------------------------------------------------------------------------
VARIABLES
    speechRecognition,    \* window.SpeechRecognition || webkitSpeechRecognition: "unknown" until first looked up
    recognitionRef,       \* recognitionRef.current : Null or a recognition id
    isListeningRef,       \* isListeningRef.current
    recognitions,         \* one entry per startRecognition call: how it failed, or its engine's state
    nRecognitions,        \* number of startRecognition invocations so far
    returned,             \* return value of each startRecognition call
    errorLog,             \* onError invocations, in order
    lastTranscript        \* last onTranscript invocation: "none" | "interim" | "final"

sttVars == <<speechRecognition, recognitionRef, isListeningRef, recognitions, nRecognitions,
             returned, errorLog, lastTranscript>>

\* ------------------------------------------------------------------------
\* Part IV : MeetingPage analysis state (written by ws.onmessage only)
\* ------------------------------------------------------------------------
VARIABLES
    stats,                \* useState stats
    lastAnalysis,         \* useState lastAnalysis: <<>> = null, <<data>> otherwise
    recentFeedback,       \* useState recentFeedback, newest first
    geminiResponse,       \* useState geminiResponse
    coordinateLogs,       \* useState coordinateLogs, newest first
    overlay,              \* what the overlay canvas shows: operations since its last clearRect
    drawn,                \* latest drawSkeleton call: its argument, the canvas operations it issued
    handled,              \* how each inbound message so far was dispatched, in order of arrival
    lastMessage,          \* the latest inbound message (event.data of the latest onmessage)
    appended,             \* every feedback item passed to setRecentFeedback, oldest first
    received              \* the message events queued for the socket's onmessage, in arrival order

anVars == <<stats, lastAnalysis, recentFeedback, geminiResponse, coordinateLogs, overlay,
            drawn, handled, lastMessage, appended, received>>
nonOverlay == <<stats, lastAnalysis, recentFeedback, geminiResponse, coordinateLogs,
                drawn, handled, lastMessage, appended, received>>

\* ------------------------------------------------------------------------
\* Part V : HomePage state, MeetingPage session verification, onNavigate
\* ------------------------------------------------------------------------
VARIABLES
    navigateCalls,        \* invocations of the onNavigate prop, in order: who called, with what path
    hpMounted,            \* a HomePage instance is mounted
    isCreating,           \* useState isCreating of HomePage
    creates,              \* createMeeting invocations: where each stands, or how it ended
    nCreates,             \* number of createMeeting invocations so far
    alerts,               \* number of alert() dialogs shown by HomePage
    verify,               \* the verifyMeeting call of the mount effect: where it stands, or how it ended
    meetingLink,          \* useState meetingLink of MeetingPage
    redirectTimers,       \* setTimeout(() => onNavigate('/'), 2000) timers: arming time and state
    clock                 \* time, in units of 1000 ms

VARIABLE
    sendLog               \* what each observed captureAndSendFrame did with ws.send: "sent" or "threw"

hpVars == <<hpMounted, isCreating, creates, nCreates, alerts>>
vmVars == <<verify, meetingLink, redirectTimers, clock>>

\* ------------------------------------------------------------------------
\* Part VI : the dashboards (VideoCoachApp): the mock-data variant and the
\* frame-streaming variant
\* ------------------------------------------------------------------------
VARIABLES
    mockIsStreaming,        \* useState isStreaming
    mockConnectionStatus,   \* useState connectionStatus
    mockSessions,           \* one entry per startStreaming call: where it stands, and what it made
    nMock,                  \* number of startStreaming invocations so far
    mockStreamRef,          \* streamRef.current : Null or a session id
    mockWsVideoRef,         \* wsVideoRef.current
    mockWsAudioRef,         \* wsAudioRef.current
    mockAudioContextRef,    \* audioContextRef.current
    mockFrameCount,         \* stats.frameCount
    mockLoops,              \* one entry per frame loop: its requestAnimationFrame callback
    mockAnimationFrameRef,  \* animationFrameRef.current : Null or the loop that requested last
    mockDirty,              \* isStreaming or processFrames changed since the effect last ran
    mockSent                \* number of messages sent on a video socket

VARIABLES
    dashIsStreaming,        \* useState isStreaming
    dashConnectionStatus,   \* useState connectionStatus
    dashSessions,           \* one entry per startStreaming call: where it stands, and what it made
    nDash,                  \* number of startStreaming invocations so far
    dashStreamRef,          \* streamRef.current
    dashWsVideoRef,         \* wsVideoRef.current
    dashWsAudioRef,         \* wsAudioRef.current
    dashAudioContextRef,    \* audioContextRef.current
    dashFrameIntervalRef,   \* frameIntervalRef.current
    dashVideoSrc,           \* videoRef.current.srcObject
    dashLastAnalysis,       \* lastAnalysis is not null
    dashOverlay,            \* the overlay canvas: "clear" or "drawn"
    dashLastCall            \* the latest of the startStreaming / stopStreaming calls

mockVars == <<mockIsStreaming, mockConnectionStatus, mockSessions, nMock, mockStreamRef,
              mockWsVideoRef, mockWsAudioRef, mockAudioContextRef, mockFrameCount, mockLoops,
              mockAnimationFrameRef, mockDirty, mockSent>>
dashVars == <<dashIsStreaming, dashConnectionStatus, dashSessions, nDash, dashStreamRef,
              dashWsVideoRef, dashWsAudioRef, dashAudioContextRef, dashFrameIntervalRef,
              dashVideoSrc, dashLastAnalysis, dashOverlay, dashLastCall>>
boardVars == <<mockVars, dashVars>>

DashIds == 1..MaxDashStarts
LoopIds == 1..MaxLoops

\* What a startStreaming call has made: the camera stream, the two sockets,
\* the audio context and (frame-streaming variant) the capture interval.
NoSession == [pc |-> "idle", tracks |-> "none", video |-> "none", audio |-> "none",
              context |-> "none", interval |-> "none"]

InitMock ==
    /\ mockIsStreaming = FALSE
    /\ mockConnectionStatus = "disconnected"
    /\ mockSessions = [i \in DashIds |-> NoSession]
    /\ nMock = 0
    /\ mockStreamRef = 0
    /\ mockWsVideoRef = 0
    /\ mockWsAudioRef = 0
    /\ mockAudioContextRef = 0
    /\ mockFrameCount = 0
    /\ mockLoops = [l \in LoopIds |-> "none"]
    /\ mockAnimationFrameRef = 0
    /\ mockDirty = FALSE
    /\ mockSent = 0

InitDash ==
    /\ dashIsStreaming = FALSE
    /\ dashConnectionStatus = "disconnected"
    /\ dashSessions = [i \in DashIds |-> NoSession]
    /\ nDash = 0
    /\ dashStreamRef = 0
    /\ dashWsVideoRef = 0
    /\ dashWsAudioRef = 0
    /\ dashAudioContextRef = 0
    /\ dashFrameIntervalRef = 0
    /\ dashVideoSrc = 0
    /\ dashLastAnalysis = FALSE
    /\ dashOverlay = "clear"
    /\ dashLastCall = "none"

InitBoards == InitMock /\ InitDash


\* What each part leaves alone.
nonMP == <<vdVars, sttVars, anVars, navigateCalls, hpVars, vmVars, sendLog, boardVars>>
nonVD == <<mpVars, sttVars, anVars, navigateCalls, hpVars, vmVars, sendLog, boardVars>>
nonSTT == <<mpVars, vdVars, anVars, navigateCalls, hpVars, vmVars, sendLog, boardVars>>
nonMsg == <<vdVars, sttVars, navigateCalls, hpVars, vmVars, sendLog, boardVars>>
nonHP == <<mpVars, vdVars, sttVars, anVars, vmVars, sendLog, boardVars>>

vars == <<mpVars, vdVars, sttVars, anVars, navigateCalls, hpVars, vmVars, sendLog, boardVars>>

\* Paths given to onNavigate: '/' and `/meet/${id}`
RootPath == [prefix |-> "/", id |-> ""]
MeetPath(id) == [prefix |-> "/meet/", id |-> id]

\* onNavigate(path)
onNavigate(by, path) == navigateCalls' = Append(navigateCalls, [by |-> by, path |-> path])

StartIds == 1..MaxStarts
SocketIds == 1..MaxSockets

NoSocket == [readyState |-> "none", isStreaming |-> FALSE, frameCount |-> 0, log |-> <<>>]
NoStart == [pc |-> "idle", isStreaming |-> FALSE, frameCount |-> 0]

InitMP ==
    /\ mounted = TRUE
    /\ isStreaming = FALSE
    /\ connectionStatus = "disconnected"
    /\ error = "none"
    /\ wsRef = Null
    /\ sockets = [s \in SocketIds |-> NoSocket]
    /\ nSockets = 0
    /\ streamRef = Null
    /\ streams = [i \in StartIds |-> "none"]
    /\ frameIntervalRef = Null
    /\ intervals = [i \in StartIds |-> "none"]
    /\ reconnectTimeoutRef = Null
    /\ timers = <<>>
    /\ videoSrc = Null
    /\ speech = "none"
    /\ starts = [i \in StartIds |-> NoStart]
    /\ nStarts = 0
    /\ lastCall = "none"

\* React ignores state updates of an unmounted component.
SetState(new, old) == IF mounted THEN new ELSE old

\* WebSocket.readyState === WebSocket.OPEN for the socket held in wsRef
WsOpen == wsRef # Null /\ sockets[wsRef].readyState = "OPEN"

\* WebSocket.close(): a connecting or open socket starts closing;
\* on a closing or closed socket it does nothing.
CloseSocket(sk) ==
    IF sk.readyState = "OPEN"
    THEN [sk EXCEPT !.readyState = "CLOSING", !.log = Append(@, "close_open")]
    ELSE IF sk.readyState = "CONNECTING"
    THEN [sk EXCEPT !.readyState = "CLOSING", !.log = Append(@, "close")]
    ELSE sk

\* WebSocket.send() on an open socket
SendOn(sk, msg) == [sk EXCEPT !.log = Append(@, msg)]

Frames(sk) == Cardinality({k \in 1..Len(sk.log) : sk.log[k] = "frame"})

\* speak(text): cancels the current utterance and starts a new one
\* (speechSynthesis is taken to exist in window).
speak(text) == speech' = text

\* connectWebSocket without its early return on an open socket.
connectWebSocket_NoGuard(cap) ==
    /\ connectionStatus' = SetState("connecting", connectionStatus)
    /\ nSockets' = nSockets + 1
    /\ sockets' = [sockets EXCEPT ![nSockets + 1] =
                      [readyState |-> "CONNECTING", isStreaming |-> cap.isStreaming,
                            frameCount |-> cap.frameCount, log |-> <<>>]]
    /\ wsRef' = nSockets + 1

\* connectWebSocket, as created by a render whose isStreaming and
\* stats.frameCount were those of `cap`:
\* the socket's onclose handler and the reconnect callback keep that value.
connectWebSocket(cap) ==
    IF WsOpen
    THEN UNCHANGED <<wsRef, sockets, nSockets, connectionStatus>>
    ELSE /\ connectionStatus' = SetState("connecting", connectionStatus)
         /\ nSockets' = nSockets + 1
         /\ sockets' = [sockets EXCEPT ![nSockets + 1] =
                           [readyState |-> "CONNECTING", isStreaming |-> cap.isStreaming,
                            frameCount |-> cap.frameCount, log |-> <<>>]]
         /\ wsRef' = nSockets + 1

CanConnect == WsOpen \/ nSockets < MaxSockets

\* startStreaming, first part: click on "Start Session" (shown only while
\* !isStreaming); runs up to the await of getUserMedia.
StartStreaming ==
    /\ mounted
    /\ ~isStreaming
    /\ nStarts < MaxStarts
    /\ nStarts' = nStarts + 1
    /\ starts' = [starts EXCEPT ![nStarts + 1] = [pc |-> "awaitCamera", isStreaming |-> isStreaming,
                                                  frameCount |-> stats.frameCount]]
    /\ error' = "none"
    /\ lastCall' = "start"
    /\ UNCHANGED <<mounted, isStreaming, connectionStatus, wsRef, sockets, nSockets, streamRef,
                   streams, frameIntervalRef, intervals, reconnectTimeoutRef, timers,
                   videoSrc, speech>>
    /\ UNCHANGED nonMP

\* startStreaming after the last await: canvas sizes (an assignment to a
\* canvas's width or height resets its bitmap, so a mounted overlay is
\* blank afterwards), connectWebSocket, setInterval, setIsStreaming(true),
\* speak.
StartTail(i) ==
    /\ CanConnect
    /\ overlay' = IF mounted THEN << >> ELSE overlay
    /\ connectWebSocket(starts[i])
    /\ intervals' = [intervals EXCEPT ![i] = "active"]
    /\ frameIntervalRef' = i
    /\ isStreaming' = SetState(TRUE, isStreaming)
    /\ speak("started")
    /\ starts' = [starts EXCEPT ![i].pc = "done"]

\* getUserMedia resolves: streamRef is set; with a video element the stream
\* is attached and play() awaited, without one the function runs on.
CameraGranted(i) ==
    /\ starts[i].pc = "awaitCamera"
    /\ streams' = [streams EXCEPT ![i] = "live"]
    /\ streamRef' = i
    /\ IF mounted
       THEN /\ videoSrc' = i
            /\ starts' = [starts EXCEPT ![i].pc = "awaitPlay"]
            /\ UNCHANGED <<isStreaming, connectionStatus, wsRef, sockets, nSockets,
                           frameIntervalRef, intervals, speech, overlay>>
       ELSE /\ StartTail(i)
            /\ UNCHANGED videoSrc
    /\ UNCHANGED <<mounted, error, reconnectTimeoutRef, timers, nStarts, lastCall>>
    /\ UNCHANGED <<vdVars, sttVars, nonOverlay, navigateCalls, hpVars, vmVars, sendLog, boardVars>>

\* getUserMedia rejects: the catch block sets the error banner.
CameraDenied(i) ==
    /\ starts[i].pc = "awaitCamera"
    /\ starts' = [starts EXCEPT ![i].pc = "failed"]
    /\ error' = SetState("camera", error)
    /\ UNCHANGED <<mounted, isStreaming, connectionStatus, wsRef, sockets, nSockets, streamRef,
                   streams, frameIntervalRef, intervals, reconnectTimeoutRef, timers,
                   videoSrc, speech, nStarts, lastCall>>
    /\ UNCHANGED nonMP

\* video.play() resolves
PlayResolved(i) ==
    /\ starts[i].pc = "awaitPlay"
    /\ StartTail(i)
    /\ UNCHANGED <<mounted, error, streamRef, streams, reconnectTimeoutRef, timers,
                   videoSrc, nStarts, lastCall>>
    /\ UNCHANGED <<vdVars, sttVars, nonOverlay, navigateCalls, hpVars, vmVars, sendLog, boardVars>>

\* video.play() rejects (e.g. interrupted by a new srcObject): catch block.
PlayRejected(i) ==
    /\ starts[i].pc = "awaitPlay"
    /\ starts' = [starts EXCEPT ![i].pc = "failed"]
    /\ error' = SetState("camera", error)
    /\ UNCHANGED <<mounted, isStreaming, connectionStatus, wsRef, sockets, nSockets, streamRef,
                   streams, frameIntervalRef, intervals, reconnectTimeoutRef, timers,
                   videoSrc, speech, nStarts, lastCall>>
    /\ UNCHANGED nonMP

\* ws.onopen
OnOpen(s) ==
    /\ sockets[s].readyState = "CONNECTING"
    /\ sockets' = [sockets EXCEPT ![s].readyState = "OPEN"]
    /\ connectionStatus' = SetState("connected", connectionStatus)
    /\ error' = SetState("none", error)
    /\ speak("welcome")
    /\ UNCHANGED <<mounted, isStreaming, wsRef, nSockets, streamRef, streams, frameIntervalRef,
                   intervals, reconnectTimeoutRef, timers, videoSrc, starts, nStarts, lastCall>>
    /\ UNCHANGED nonMP

\* The socket was open at some point (it is open, or close() found it open).
EverOpened(sk) ==
    \/ sk.readyState = "OPEN"
    \/ sk.readyState = "CLOSING" /\ sk.log[Len(sk.log)] = "close_open"

\* How a connection may end: a connection that never opened has failed.
CloseOutcomes(sk) == IF EverOpened(sk) THEN {"clean", "unclean", "failed"} ELSE {"failed"}

\* The connection ends: readyState becomes CLOSED, ws.onerror runs when the
\* connection failed, then ws.onclose runs with event.wasClean.
OnClose(s, outcome) ==
    /\ sockets[s].readyState \in {"CONNECTING", "OPEN", "CLOSING"}
    /\ outcome \in CloseOutcomes(sockets[s])
    /\ sockets' = [sockets EXCEPT ![s].readyState = "CLOSED"]
    /\ error' = IF outcome = "failed" THEN SetState("connection", error) ELSE error
    /\ connectionStatus' = SetState("disconnected", connectionStatus)
    /\ IF sockets[s].isStreaming /\ outcome # "clean"
       THEN /\ timers' = Append(timers, [state |-> "pending", isStreaming |-> sockets[s].isStreaming,
                                            frameCount |-> sockets[s].frameCount])
            /\ reconnectTimeoutRef' = Len(timers) + 1
       ELSE UNCHANGED <<timers, reconnectTimeoutRef>>
    /\ UNCHANGED <<mounted, isStreaming, wsRef, nSockets, streamRef, streams, frameIntervalRef,
                   intervals, videoSrc, speech, starts, nStarts, lastCall>>
    /\ UNCHANGED nonMP

\* The reconnect timer's callback, 3000 ms after ws.onclose armed it.
ReconnectTimeout(t) ==
    /\ t \in 1..Len(timers)
    /\ timers[t].state = "pending"
    /\ timers' = [timers EXCEPT ![t].state = "fired"]
    /\ IF timers[t].isStreaming
       THEN CanConnect /\ connectWebSocket(timers[t])
       ELSE UNCHANGED <<wsRef, sockets, nSockets, connectionStatus>>
    /\ UNCHANGED <<mounted, isStreaming, error, streamRef, streams, frameIntervalRef, intervals,
                   reconnectTimeoutRef, videoSrc, speech, starts, nStarts, lastCall>>
    /\ UNCHANGED nonMP

\* captureAndSendFrame is ready to send: canvas, video element and an open socket
FrameReady == mounted /\ WsOpen

\* One tick of a frame-capture interval: captureAndSendFrame.
\* ws.send may throw; the exception is caught and logged.
\* A frame callback that gives the session up when ws.send throws.
captureAndSendFrame_Teardown(k, sendThrows) ==
    /\ intervals[k] = "active"
    /\ IF FrameReady /\ ~sendThrows
       THEN /\ Frames(sockets[wsRef]) < MaxSent
            /\ sockets' = [sockets EXCEPT ![wsRef] = SendOn(@, "frame")]
            /\ UNCHANGED <<intervals, frameIntervalRef, connectionStatus>>
       ELSE IF FrameReady
       THEN /\ sockets' = [sockets EXCEPT ![wsRef] = CloseSocket(@)]
            /\ intervals' = [intervals EXCEPT ![k] = "cleared"]
            /\ frameIntervalRef' = Null
            /\ connectionStatus' = "disconnected"
       ELSE UNCHANGED <<sockets, intervals, frameIntervalRef, connectionStatus>>
    /\ UNCHANGED <<mounted, isStreaming, error, wsRef, nSockets, streamRef,
                   streams, reconnectTimeoutRef, timers,
                   videoSrc, speech, starts, nStarts, lastCall>>

\* captureAndSendFrame, called by interval k: returns early without canvas,
\* video or open socket; an exception of ws.send is caught and logged.
captureAndSendFrame(k, sendThrows) ==
    /\ intervals[k] = "active"
    /\ IF FrameReady /\ ~sendThrows
       THEN /\ Frames(sockets[wsRef]) < MaxSent
            /\ sockets' = [sockets EXCEPT ![wsRef] = SendOn(@, "frame")]
       ELSE UNCHANGED sockets
    /\ UNCHANGED <<mounted, isStreaming, connectionStatus, error, wsRef, nSockets, streamRef,
                   streams, frameIntervalRef, intervals, reconnectTimeoutRef, timers,
                   videoSrc, speech, starts, nStarts, lastCall>>

FrameTick(k, sendThrows) ==
    /\ captureAndSendFrame(k, sendThrows)
    /\ UNCHANGED nonMP

\* A tick of interval k that reaches ws.send, with the outcome of the send
\* noted in sendLog.
SendTick(k, sendThrows) ==
    /\ FrameReady
    /\ Len(sendLog) < MaxTicks
    /\ captureAndSendFrame(k, sendThrows)
    /\ sendLog' = Append(sendLog, IF sendThrows THEN "threw" ELSE "sent")
    /\ UNCHANGED <<vdVars, sttVars, anVars, navigateCalls, hpVars, vmVars, boardVars>>

ClearInterval(ivs, ref) == IF ref # Null THEN [ivs EXCEPT ![ref] = "cleared"] ELSE ivs
ClearTimeout(tms, ref) ==
    IF ref # Null /\ tms[ref].state = "pending" THEN [tms EXCEPT ![ref].state = "cleared"] ELSE tms
\* Teardown that drops the stream without stopping its tracks.
StopTracks_Skip(sts, ref) == sts
StopTracks(sts, ref) == IF ref # Null THEN [sts EXCEPT ![ref] = "stopped"] ELSE sts

\* stopStreaming up to its final speak(): interval, reconnect timer, media
\* tracks, socket ("end" first when open), video element, speech
\* cancellation, state.
StopEffects ==
    /\ intervals' = ClearInterval(intervals, frameIntervalRef)
    /\ frameIntervalRef' = Null
    /\ timers' = ClearTimeout(timers, reconnectTimeoutRef)
    /\ reconnectTimeoutRef' = Null
    /\ streams' = StopTracks(streams, streamRef)
    /\ streamRef' = Null
    /\ sockets' = IF wsRef = Null THEN sockets
                  ELSE [sockets EXCEPT ![wsRef] =
                           CloseSocket(IF @.readyState = "OPEN" THEN SendOn(@, "end") ELSE @)]
    /\ wsRef' = Null
    /\ videoSrc' = Null
    /\ isStreaming' = FALSE
    /\ connectionStatus' = "disconnected"
    /\ lastCall' = "stop"
    /\ UNCHANGED <<error, nSockets, starts, nStarts>>

\* A call of stopStreaming.
StopStreaming ==
    /\ mounted
    /\ StopEffects
    /\ speak("ended")
    /\ UNCHANGED mounted
    /\ UNCHANGED nonMP

\* The "Stop Session" button, rendered while isStreaming.
StopButton == isStreaming /\ StopStreaming

\* The Home button, always rendered: stopStreaming(); onNavigate('/').
\* Leaving the route unmounts the page; its cleanup finds every ref
\* cleared by stopStreaming and cancels the utterance just started.
HomeButton ==
    /\ mounted
    /\ StopEffects
    /\ onNavigate("home button", RootPath)
    /\ speech' = "none"
    /\ mounted' = FALSE
    /\ UNCHANGED <<vdVars, sttVars, anVars, hpVars, vmVars, sendLog, boardVars>>

\* A cleanup that tears down through stopStreaming, final speak() included.
Unmount_ViaStop ==
    /\ mounted
    /\ StopEffects
    /\ speak("ended")
    /\ mounted' = FALSE
    /\ UNCHANGED nonMP

\* The cleanup function of the mount effect: the page is unmounted.
Unmount ==
    /\ mounted
    /\ mounted' = FALSE
    /\ intervals' = ClearInterval(intervals, frameIntervalRef)
    /\ timers' = ClearTimeout(timers, reconnectTimeoutRef)
    /\ streams' = StopTracks(streams, streamRef)
    /\ sockets' = IF wsRef = Null THEN sockets
                  ELSE [sockets EXCEPT ![wsRef] = CloseSocket(@)]
    /\ speech' = "none"
    /\ UNCHANGED <<isStreaming, connectionStatus, error, wsRef, nSockets, streamRef,
                   frameIntervalRef, reconnectTimeoutRef, videoSrc, starts, nStarts, lastCall>>
    /\ UNCHANGED nonMP

\* The utterance being spoken comes to its end.
SpeechEnds ==
    /\ speech # "none"
    /\ speech' = "none"
    /\ UNCHANGED <<mounted, isStreaming, connectionStatus, error, wsRef, sockets, nSockets,
                   streamRef, streams, frameIntervalRef, intervals, reconnectTimeoutRef,
                   timers, videoSrc, starts, nStarts, lastCall>>
    /\ UNCHANGED nonMP

\* Promise continuations, socket events, timer callbacks, unmount.
\* ReconnectTimeout is no disjunct: ws.onclose never arms the timer it
\* would be the callback of (ReconnectNeverArmed is an invariant of SpecMP).
EnvMP ==
    \/ \E i \in StartIds : CameraGranted(i)
    \/ \E i \in StartIds : CameraDenied(i)
    \/ \E i \in StartIds : PlayResolved(i)
    \/ \E i \in StartIds : PlayRejected(i)
    \/ \E s \in SocketIds : OnOpen(s)
    \/ \E s \in SocketIds, o \in {"clean", "unclean", "failed"} : OnClose(s, o)
    \/ \E k \in StartIds, th \in BOOLEAN : FrameTick(k, th)
    \/ Unmount
    \/ SpeechEnds

NextMP == StartStreaming \/ StopButton \/ HomeButton \/ EnvMP

\* A startStreaming call has not yet returned.
StartInFlight == \E i \in StartIds : starts[i].pc \in {"awaitCamera", "awaitPlay"}

\* startStreaming and stopStreaming called one after the other, each start
\* followed by a stop once it has returned.
NextSeq ==
    \/ StartStreaming /\ ~StartInFlight /\ lastCall # "start"
    \/ StopStreaming /\ ~StartInFlight /\ lastCall = "start"
    \/ EnvMP

\* ------------------------------------------------------------------------
\* Part II : useVoiceDetection
\* ------------------------------------------------------------------------
ListenIds == 1..MaxListens
EnergyLevels == 0..(SpeechThreshold + 1)
Baseline == [isSpeaking |-> FALSE, energy |-> 0, isListening |-> FALSE]

InitVD ==
    /\ vdMounted = TRUE
    /\ vdState = Baseline
    /\ audioContextRef = Null
    /\ audioContexts = [i \in ListenIds |-> "none"]
    /\ analyserRef = Null
    /\ micStreamRef = Null
    /\ micStreams = [i \in ListenIds |-> "none"]
    /\ animationFrameRef = Null
    /\ loops = [i \in ListenIds |-> "none"]
    /\ silenceTimerRef = Null
    /\ silenceTimers = {}
    /\ speechStartTimeRef = Null
    /\ listens = [i \in ListenIds |-> "idle"]
    /\ nListens = 0
    /\ now = 1
    /\ vdCalls = <<>>
    /\ lastLoud = Null
    /\ overtaken = {}
    /\ listening = FALSE

\* A detector for which energy at the threshold is speech.
HasSpeech_AtThreshold(e) == e >= SpeechThreshold

\* const hasSpeech = normalizedEnergy > speechThreshold
HasSpeech(e) == e > SpeechThreshold

\* A detector that reports speech on every loud tick.
SpeechStarts_EveryTick(e, st) == vdMounted /\ HasSpeech(e)

\* The updater of a loud tick finds !prev.isSpeaking: speech starts.
SpeechStarts(e, st) == vdMounted /\ HasSpeech(e) /\ ~st.isSpeaking

\* analyzeAudio that leaves a pending silence timer alone when speech resumes.
analyzeAudio_NoClear(l, e, st) ==
    LET hasSpeech == HasSpeech(e)
        starting == SpeechStarts(e, st)
        arming == vdMounted /\ ~hasSpeech /\ st.isSpeaking /\ silenceTimerRef = Null
        st1 == [st EXCEPT !.energy = e]
    IN  /\ vdState' = IF ~vdMounted THEN vdState
                      ELSE IF starting THEN [st1 EXCEPT !.isSpeaking = TRUE]
                      ELSE st1
        /\ speechStartTimeRef' = IF starting THEN now ELSE speechStartTimeRef
        /\ vdCalls' = IF starting THEN Append(vdCalls, [kind |-> "start", duration |-> 0])
                      ELSE vdCalls
        /\ IF arming
           THEN /\ silenceTimers' = silenceTimers \cup {now}
                /\ silenceTimerRef' = now
           ELSE UNCHANGED <<silenceTimers, silenceTimerRef>>
        /\ lastLoud' = IF hasSpeech THEN now ELSE lastLoud
        /\ animationFrameRef' = l
        /\ loops' = [loops EXCEPT ![l] = "scheduled"]

\* analyzeAudio with the analyser present, run by loop l on energy e, the
\* hook's state being st: energy update, speech start, silence timer,
\* next animation frame.  The state updaters it queues are taken to run
\* with the tick that queues them; those of an unmounted component never run.
analyzeAudio(l, e, st) ==
    LET hasSpeech == HasSpeech(e)
        starting == SpeechStarts(e, st)
        arming == vdMounted /\ ~hasSpeech /\ st.isSpeaking /\ silenceTimerRef = Null
        st1 == [st EXCEPT !.energy = e]
    IN  /\ vdState' = IF ~vdMounted THEN vdState
                      ELSE IF starting THEN [st1 EXCEPT !.isSpeaking = TRUE]
                      ELSE st1
        /\ speechStartTimeRef' = IF starting THEN now ELSE speechStartTimeRef
        /\ vdCalls' = IF starting THEN Append(vdCalls, [kind |-> "start", duration |-> 0])
                      ELSE vdCalls
        /\ IF hasSpeech
           THEN /\ silenceTimers' = silenceTimers \ {silenceTimerRef}
                /\ silenceTimerRef' = Null
           ELSE IF arming
           THEN /\ silenceTimers' = silenceTimers \cup {now}
                /\ silenceTimerRef' = now
           ELSE UNCHANGED <<silenceTimers, silenceTimerRef>>
        /\ lastLoud' = IF hasSpeech THEN now ELSE lastLoud
        /\ animationFrameRef' = l
        /\ loops' = [loops EXCEPT ![l] = "scheduled"]

\* startListening up to the await of getUserMedia.
StartListening ==
    /\ vdMounted
    /\ nListens < MaxListens
    /\ nListens' = nListens + 1
    /\ listens' = [listens EXCEPT ![nListens + 1] = "awaitMic"]
    /\ UNCHANGED <<vdMounted, vdState, audioContextRef, audioContexts, analyserRef, micStreamRef,
                   micStreams, animationFrameRef, loops, silenceTimerRef, silenceTimers,
                   speechStartTimeRef, now, vdCalls, lastLoud, overtaken, listening>>
    /\ UNCHANGED nonVD

\* getUserMedia resolves: stream, audio context and analyser are stored,
\* isListening is set and analyzeAudio is called once directly.
MicGranted(i, e) ==
    /\ listens[i] = "awaitMic"
    /\ listens' = [listens EXCEPT ![i] = "done"]
    /\ micStreams' = [micStreams EXCEPT ![i] = "live"]
    /\ micStreamRef' = i
    /\ audioContexts' = [audioContexts EXCEPT ![i] = "running"]
    /\ audioContextRef' = i
    /\ analyserRef' = i
    /\ analyzeAudio(i, e, [vdState EXCEPT !.isListening = TRUE])
    /\ listening' = (listening \/ i \notin overtaken)
    /\ UNCHANGED <<vdMounted, nListens, now, overtaken>>
    /\ UNCHANGED nonVD

\* A startListening that marks the hook as listening before it has the microphone.
MicDenied_Listening(i) ==
    /\ listens[i] = "awaitMic"
    /\ listens' = [listens EXCEPT ![i] = "rejected"]
    /\ vdState' = [vdState EXCEPT !.isListening = TRUE]
    /\ UNCHANGED <<vdMounted, audioContextRef, audioContexts, analyserRef, micStreamRef,
                   micStreams, animationFrameRef, loops, silenceTimerRef, silenceTimers,
                   speechStartTimeRef, nListens, now, vdCalls, lastLoud, overtaken, listening>>
    /\ UNCHANGED nonVD

\* getUserMedia rejects: the error is logged and thrown to the caller.
MicDenied(i) ==
    /\ listens[i] = "awaitMic"
    /\ listens' = [listens EXCEPT ![i] = "rejected"]
    /\ UNCHANGED <<vdMounted, vdState, audioContextRef, audioContexts, analyserRef, micStreamRef,
                   micStreams, animationFrameRef, loops, silenceTimerRef, silenceTimers,
                   speechStartTimeRef, nListens, now, vdCalls, lastLoud, overtaken, listening>>
    /\ UNCHANGED nonVD

\* The animation frame requested by loop l: analyzeAudio, which returns at
\* once when there is no analyser.
AudioTick(l, e) ==
    /\ loops[l] = "scheduled"
    /\ IF analyserRef = Null
       THEN /\ loops' = [loops EXCEPT ![l] = "ended"]
            /\ UNCHANGED <<vdState, speechStartTimeRef, vdCalls, silenceTimers, silenceTimerRef,
                           lastLoud, animationFrameRef>>
       ELSE analyzeAudio(l, e, vdState)
    /\ UNCHANGED <<vdMounted, audioContextRef, audioContexts, analyserRef, micStreamRef,
                   micStreams, listens, nListens, now, overtaken, listening>>
    /\ UNCHANGED nonVD

\* The silence timer armed at time t fires, silenceDuration or more later.
SilenceTimeout(t) ==
    /\ t \in silenceTimers
    /\ now >= t + SilenceDuration
    /\ vdState' = IF vdMounted THEN [vdState EXCEPT !.isSpeaking = FALSE] ELSE vdState
    /\ vdCalls' = Append(vdCalls,
                     [kind |-> "end",
                      duration |-> IF speechStartTimeRef # Null THEN now - speechStartTimeRef ELSE 0])
    /\ silenceTimers' = silenceTimers \ {t}
    /\ silenceTimerRef' = Null
    /\ speechStartTimeRef' = Null
    /\ UNCHANGED <<vdMounted, audioContextRef, audioContexts, analyserRef, micStreamRef,
                   micStreams, animationFrameRef, loops, listens, nListens, now, lastLoud,
                   overtaken, listening>>
    /\ UNCHANGED nonVD

\* The body of stopListening.
StopListeningEffects ==
    /\ loops' = IF animationFrameRef # Null /\ loops[animationFrameRef] = "scheduled"
                THEN [loops EXCEPT ![animationFrameRef] = "cancelled"] ELSE loops
    /\ animationFrameRef' = Null
    /\ silenceTimers' = silenceTimers \ {silenceTimerRef}
    /\ silenceTimerRef' = Null
    /\ micStreams' = IF micStreamRef # Null THEN [micStreams EXCEPT ![micStreamRef] = "stopped"]
                     ELSE micStreams
    /\ micStreamRef' = Null
    /\ audioContexts' = IF audioContextRef # Null
                        THEN [audioContexts EXCEPT ![audioContextRef] = "closed"]
                        ELSE audioContexts
    /\ audioContextRef' = Null
    /\ analyserRef' = Null
    /\ vdState' = Baseline
    /\ listening' = FALSE
    /\ overtaken' = overtaken \cup {i \in ListenIds : listens[i] = "awaitMic"}
    /\ UNCHANGED <<speechStartTimeRef, listens, nListens, now, vdCalls, lastLoud>>

\* A call of stopListening.
StopListening ==
    /\ vdMounted
    /\ StopListeningEffects
    /\ UNCHANGED vdMounted
    /\ UNCHANGED nonVD

\* The hook's cleanup effect: stopListening on unmount.
VdUnmount ==
    /\ vdMounted
    /\ StopListeningEffects
    /\ vdMounted' = FALSE
    /\ UNCHANGED nonVD

\* Time passes.
Tock ==
    /\ now < MaxTime
    /\ now' = now + 1
    /\ UNCHANGED <<vdMounted, vdState, audioContextRef, audioContexts, analyserRef, micStreamRef,
                   micStreams, animationFrameRef, loops, silenceTimerRef, silenceTimers,
                   speechStartTimeRef, listens, nListens, vdCalls, lastLoud, overtaken, listening>>
    /\ UNCHANGED nonVD

NextVD ==
    \/ StartListening
    \/ \E i \in ListenIds, e \in EnergyLevels : MicGranted(i, e)
    \/ \E i \in ListenIds : MicDenied(i)
    \/ \E l \in ListenIds, e \in EnergyLevels : AudioTick(l, e)
    \/ \E t \in 1..MaxTime : SilenceTimeout(t)
    \/ StopListening
    \/ VdUnmount
    \/ Tock

\* ------------------------------------------------------------------------
\* useSpeechToText : operations
\* ------------------------------------------------------------------------
RecognitionIds == 1..MaxRecognitions

\* States of an entry of recognitions. "unsupported", "newThrew" and
\* "startThrew" are calls that produced no started engine; the others are
\* states of a SpeechRecognition object after start(): "starting" (start
\* event not yet delivered), "running", "stopping" (stop() called while
\* running), "stoppingEarly" (stop() called before the start event),
\* "errored" (error event delivered, end event due), "ended".
FailedStates == {"unsupported", "newThrew", "startThrew"}
EngineStates == {"starting", "running", "stopping", "stoppingEarly", "errored", "ended"}

InitSTT ==
    /\ speechRecognition = "unknown"
    /\ recognitionRef = Null
    /\ isListeningRef = FALSE
    /\ recognitions = [i \in RecognitionIds |-> "none"]
    /\ nRecognitions = 0
    /\ returned = [i \in RecognitionIds |-> "none"]
    /\ errorLog = << >>
    /\ lastTranscript = "none"

isListening == isListeningRef

\* onError?.(error)
onError(src, err) == errorLog' = Append(errorLog, [src |-> src, error |-> err])

\* A startRecognition that stores the engine before starting it.
startRecognition_StoreFirst(i, outcome) ==
    /\ recognitions' = [recognitions EXCEPT ![i] =
          CASE outcome = "absent" -> "unsupported"
            [] outcome = "newThrows" -> "newThrew"
            [] outcome = "startThrows" -> "startThrew"
            [] OTHER -> "starting"]
    /\ IF outcome = "ok"
         THEN /\ returned' = [returned EXCEPT ![i] = TRUE]
              /\ recognitionRef' = i
              /\ UNCHANGED errorLog
         ELSE /\ returned' = [returned EXCEPT ![i] = FALSE]
              /\ onError(i, IF outcome = "absent" THEN "unsupported" ELSE "exception")
              /\ recognitionRef' = IF outcome = "startThrows" THEN i ELSE recognitionRef
    /\ UNCHANGED isListeningRef

\* startRecognition, call number i. outcome is what the browser does:
\* "absent" (no constructor in window), "newThrows" (the constructor throws),
\* "startThrows" (recognition.start() throws), "ok".
startRecognition(i, outcome) ==
    /\ recognitions' = [recognitions EXCEPT ![i] =
          CASE outcome = "absent" -> "unsupported"
            [] outcome = "newThrows" -> "newThrew"
            [] outcome = "startThrows" -> "startThrew"
            [] OTHER -> "starting"]
    /\ IF outcome = "ok"
         THEN /\ returned' = [returned EXCEPT ![i] = TRUE]
              /\ recognitionRef' = i
              /\ UNCHANGED errorLog
         ELSE /\ returned' = [returned EXCEPT ![i] = FALSE]
              /\ onError(i, IF outcome = "absent" THEN "unsupported" ELSE "exception")
              /\ UNCHANGED recognitionRef
    /\ UNCHANGED isListeningRef

StartOutcomes == {"absent", "newThrows", "startThrows", "ok"}

StartRecognition(outcome) ==
    /\ nRecognitions < MaxRecognitions
    /\ IF outcome = "absent" THEN speechRecognition # "present"
                             ELSE speechRecognition # "absent"
    /\ speechRecognition' = IF outcome = "absent" THEN "absent" ELSE "present"
    /\ nRecognitions' = nRecognitions + 1
    /\ startRecognition(nRecognitions + 1, outcome)
    /\ UNCHANGED lastTranscript
    /\ UNCHANGED nonSTT

\* recognition.stop() on the engine of entry e
EngineStop(e) ==
    [recognitions EXCEPT ![e] =
        CASE recognitions[e] = "running" -> "stopping"
          [] recognitions[e] = "starting" -> "stoppingEarly"
          [] OTHER -> recognitions[e]]

\* stopRecognition. returned is touched only by startRecognition.
StopRecognition ==
    /\ nRecognitions > 0
    /\ IF recognitionRef # Null /\ isListeningRef
         THEN /\ recognitions' = EngineStop(recognitionRef)
              /\ recognitionRef' = Null
              /\ isListeningRef' = FALSE
         ELSE UNCHANGED <<recognitions, recognitionRef, isListeningRef>>
    /\ UNCHANGED <<speechRecognition, nRecognitions, returned, errorLog, lastTranscript>>
    /\ UNCHANGED nonSTT

\* recognition.onstart. An engine stopped before its start event may still
\* deliver it before it ends.
OnStart(e) ==
    /\ recognitions[e] \in {"starting", "stoppingEarly"}
    /\ recognitions' = [recognitions EXCEPT ![e] =
          IF recognitions[e] = "starting" THEN "running" ELSE "stopping"]
    /\ isListeningRef' = TRUE
    /\ UNCHANGED <<speechRecognition, recognitionRef, nRecognitions, returned, errorLog,
                   lastTranscript>>
    /\ UNCHANGED nonSTT

\* recognition.onresult
OnResult(e, isFinal) ==
    /\ recognitions[e] \in {"running", "stopping"}
    /\ lastTranscript' = IF isFinal THEN "final" ELSE "interim"
    /\ UNCHANGED <<speechRecognition, recognitionRef, isListeningRef, recognitions,
                   nRecognitions, returned, errorLog>>
    /\ UNCHANGED nonSTT

\* A recognition.onerror that only reports.
OnRecognitionError_KeepListening(e) ==
    /\ recognitions[e] \in {"starting", "running", "stopping", "stoppingEarly"}
    /\ recognitions' = [recognitions EXCEPT ![e] = "errored"]
    /\ onError(e, "event")
    /\ UNCHANGED isListeningRef
    /\ UNCHANGED <<speechRecognition, recognitionRef, nRecognitions, returned, lastTranscript>>
    /\ UNCHANGED nonSTT

\* recognition.onerror. recognitionRef keeps the engine.
OnRecognitionError(e) ==
    /\ recognitions[e] \in {"starting", "running", "stopping", "stoppingEarly"}
    /\ recognitions' = [recognitions EXCEPT ![e] = "errored"]
    /\ onError(e, "event")
    /\ isListeningRef' = FALSE
    /\ UNCHANGED <<speechRecognition, recognitionRef, nRecognitions, returned, lastTranscript>>
    /\ UNCHANGED nonSTT

\* recognition.onend
OnEnd(e) ==
    /\ recognitions[e] \in {"running", "stopping", "stoppingEarly", "errored"}
    /\ recognitions' = [recognitions EXCEPT ![e] = "ended"]
    /\ isListeningRef' = FALSE
    /\ UNCHANGED <<speechRecognition, recognitionRef, nRecognitions, returned, errorLog,
                   lastTranscript>>
    /\ UNCHANGED nonSTT

NextSTT ==
    \/ \E outcome \in StartOutcomes : StartRecognition(outcome)
    \/ StopRecognition
    \/ \E e \in RecognitionIds : OnStart(e)
    \/ \E e \in RecognitionIds, isFinal \in BOOLEAN : OnResult(e, isFinal)
    \/ \E e \in RecognitionIds : OnRecognitionError(e)
    \/ \E e \in RecognitionIds : OnEnd(e)

\* ------------------------------------------------------------------------
\* MeetingPage : inbound messages
\* ------------------------------------------------------------------------
\* An optional JSON member is << >> when absent (or null) and <<v>> when present.
Absent == << >>
Some(v) == <<v>>
Has(o) == o # << >>
Get(o) == o[1]

\* a || b for a number and for a string member
OrNum(o, default) == IF ~Has(o) \/ Get(o) = 0 THEN default ELSE Get(o)
OrStr(o, default) == IF ~Has(o) \/ Get(o) = "" THEN default ELSE Get(o)

\* First n elements of a sequence: seq.slice(0, n)
Slice(seq, n) == SubSeq(seq, 1, IF Len(seq) < n THEN Len(seq) ELSE n)

\* config POSE_PAIRS
POSE_PAIRS ==
    << <<0,1>>, <<1,2>>, <<2,3>>, <<3,4>>, <<1,5>>, <<5,6>>, <<6,7>>, <<1,8>>, <<8,9>>,
       <<9,10>>, <<1,11>>, <<11,12>>, <<12,13>>, <<0,14>>, <<0,15>>, <<14,16>>, <<15,17>> >>

\* A keypoint list holds, per index, null or a point with a confidence
\* (coordinates only place the drawing and are left out).
NullPoint == [isNull |-> TRUE, confidence |-> 0]
Point(c) == [isNull |-> FALSE, confidence |-> c]

\* keypoints[i] (0-based); undefined past the end, which tests like null
At(keypoints, i) == IF i + 1 \in 1..Len(keypoints) THEN keypoints[i + 1] ELSE NullPoint

\* pt && pt.confidence > 0.2
Visible(pt) == ~pt.isNull /\ pt.confidence > ConfidenceThreshold

\* Canvas operations
ClearOp == [op |-> "clear", a |-> 0, b |-> 0, color |-> "none"]
LineOp(i, j) == [op |-> "line", a |-> i, b |-> j, color |-> "green"]
\* A grading whose upper bands include their lower edge.
CircleOp_Inclusive(i, c) ==
    [op |-> "circle", a |-> i, b |-> i,
     color |-> IF c >= RedAbove THEN "red" ELSE IF c >= YellowAbove THEN "yellow" ELSE "orange"]

CircleOp(i, c) ==
    [op |-> "circle", a |-> i, b |-> i,
     color |-> IF c > RedAbove THEN "red" ELSE IF c > YellowAbove THEN "yellow" ELSE "orange"]

\* A drawSkeleton that draws the joints before the connections and takes
\* confidence 0.2 as visible.
drawSkeleton_CirclesFirst(keypoints, canvas, video) ==
    IF Len(keypoints) = 0 \/ ~canvas THEN << >>
    ELSE IF ~video THEN <<ClearOp>>
    ELSE LET Vis(pt) == ~pt.isNull /\ pt.confidence >= ConfidenceThreshold
             Joined(pair) == Vis(At(keypoints, pair[1])) /\ Vis(At(keypoints, pair[2]))
             pairs == SelectSeq(POSE_PAIRS, Joined)
             Shown(i) == Vis(At(keypoints, i))
             points == SelectSeq([k \in 1..Len(keypoints) |-> k - 1], Shown)
         IN  <<ClearOp>>
             \o [k \in 1..Len(points) |-> CircleOp(points[k], At(keypoints, points[k]).confidence)]
             \o [k \in 1..Len(pairs) |-> LineOp(pairs[k][1], pairs[k][2])]

\* drawSkeleton(ctx, keypoints): the canvas operations it issues, in order.
\* canvas / video: overlayCanvasRef.current / videoRef.current are non-null.
drawSkeleton(keypoints, canvas, video) ==
    IF Len(keypoints) = 0 \/ ~canvas THEN << >>
    ELSE IF ~video THEN <<ClearOp>>
    ELSE LET Joined(pair) == Visible(At(keypoints, pair[1])) /\ Visible(At(keypoints, pair[2]))
             pairs == SelectSeq(POSE_PAIRS, Joined)
             Shown(i) == Visible(At(keypoints, i))
             points == SelectSeq([k \in 1..Len(keypoints) |-> k - 1], Shown)
         IN  <<ClearOp>>
             \o [k \in 1..Len(pairs) |-> LineOp(pairs[k][1], pairs[k][2])]
             \o [k \in 1..Len(points) |-> CircleOp(points[k], At(keypoints, points[k]).confidence)]

\* The canvas after a sequence of operations: what was issued since the last clearRect.
Canvas(before, ops) ==
    IF ops = << >> THEN before
    ELSE IF ops[1] = ClearOp THEN Tail(ops) ELSE before \o ops

\* An inbound message as JSON.parse sees it: json is "invalid" (not JSON),
\* "null" (JSON without members) or "object".
Message(json, type, message, data, gemini, coaching) ==
    [json |-> json, type |-> type, message |-> message, data |-> data,
     gemini |-> gemini, coaching |-> coaching]

NoMessage == Message("none", "", Absent, Absent, Absent, Absent)

InitialStats ==
    [frameCount |-> 0, balance |-> 0, energy |-> "Unknown", emotion |-> "Unknown",
     emotionConfidence |-> 0, posture |-> "Unknown", postureAngle |-> 0]

NotDrawn == [keypoints |-> << >>, ops |-> << >>, called |-> FALSE]

InitAN ==
    /\ stats = InitialStats
    /\ lastAnalysis = Absent
    /\ recentFeedback = << >>
    /\ geminiResponse = ""
    /\ coordinateLogs = << >>
    /\ overlay = << >>
    /\ drawn = NotDrawn
    /\ handled = << >>
    /\ lastMessage = NoMessage
    /\ appended = << >>
    /\ received = << >>

\* stats.balance.toFixed(0), balance in tenths: nearest integer, a tie going
\* to the larger magnitude (the sign is set aside first).
toFixed0(x) == IF x < 0 THEN -((-x + 5) \div 10) ELSE (x + 5) \div 10
BalanceDisplay == toFixed0(stats.balance)

\* new Date().toLocaleTimeString(): messages are stamped with their arrival number
Clock == Len(handled) + 1

\* A setStats that merges the payload into the previous value.
NewStats_Merge(data, closure) ==
    [frameCount |-> IF data.frame_num # 0 THEN data.frame_num ELSE closure.frameCount,
     balance |-> OrNum(data.balance, stats.balance),
     energy |-> OrStr(data.movement, stats.energy),
     emotion |-> IF Has(data.emotion) THEN OrStr(Some(Get(data.emotion).emotion), stats.emotion)
                 ELSE stats.emotion,
     emotionConfidence |-> IF Has(data.emotion) THEN OrNum(Some(Get(data.emotion).confidence), stats.emotionConfidence)
                           ELSE stats.emotionConfidence,
     posture |-> IF Has(data.posture) THEN OrStr(Some(Get(data.posture).status), stats.posture)
                 ELSE stats.posture,
     postureAngle |-> IF Has(data.posture) THEN OrNum(Some(Get(data.posture).angle), stats.postureAngle)
                      ELSE stats.postureAngle]

\* The value passed to setStats; closure is the socket whose handler runs
\* (stats.frameCount is the one its connectWebSocket closed over).
NewStats(data, closure) ==
    [frameCount |-> IF data.frame_num # 0 THEN data.frame_num ELSE closure.frameCount,
     balance |-> OrNum(data.balance, 0),
     energy |-> OrStr(data.movement, "Unknown"),
     emotion |-> IF Has(data.emotion) THEN OrStr(Some(Get(data.emotion).emotion), "Unknown")
                 ELSE "Unknown",
     emotionConfidence |-> IF Has(data.emotion) THEN OrNum(Some(Get(data.emotion).confidence), 0)
                           ELSE 0,
     posture |-> IF Has(data.posture) THEN OrStr(Some(Get(data.posture).status), "Unknown")
                 ELSE "Unknown",
     postureAngle |-> IF Has(data.posture) THEN OrNum(Some(Get(data.posture).angle), 0)
                      ELSE 0]

\* A log that lists every keypoint that is not null.
ValidKeypoints_AnyPoint(keypoints) ==
    {i \in 0..(Len(keypoints) - 1) : ~At(keypoints, i).isNull}

\* Indices logged for a frame: kp && kp.confidence > 0.2
ValidKeypoints(keypoints) == {i \in 0..(Len(keypoints) - 1) : Visible(At(keypoints, i))}

\* A test that looks at the feedback text only.
Triggered_AnyFeedback(o) == Has(o) /\ Get(o).feedback # ""

\* response.gemini?.triggered && response.gemini.feedback, and the same for coaching
Triggered(o) == Has(o) /\ Get(o).triggered /\ Get(o).feedback # ""

\* The feedback items of one message, in the order they are prepended.
NewFeedback(m) ==
    (IF Triggered(m.gemini)
       THEN <<[time |-> Clock, text |-> Get(m.gemini).feedback, reason |-> "ai_analysis"]>>
       ELSE << >>)
    \o (IF Triggered(m.coaching)
          THEN <<[time |-> Clock, text |-> Get(m.coaching).feedback, reason |-> Get(m.coaching).reason]>>
          ELSE << >>)

\* setRecentFeedback(prev => [item, ...prev].slice(0, 5)), once per item
RECURSIVE Prepend(_, _)
Prepend(list, items) ==
    IF items = << >> THEN list
    ELSE Prepend(Slice(<<Head(items)>> \o list, FeedbackKept), Tail(items))

\* A dispatch that reports every message of an unknown type as a backend error.
Dispatch_UnknownAsError(m) ==
    IF m.json # "object" THEN "dropped"
    ELSE IF m.type \in {"welcome", "pong", "error"} THEN m.type
    ELSE IF m.type = "analysis" /\ Has(m.data) THEN "analysis"
    ELSE IF m.type = "analysis" THEN "dropped"
    ELSE "error"

\* How ws.onmessage dispatches a message: "dropped" when JSON.parse or the
\* access to response.type throws, when no branch matches, or when an
\* analysis message has no data.
Dispatch(m) ==
    IF m.json # "object" THEN "dropped"
    ELSE IF m.type \in {"welcome", "pong", "error"} THEN m.type
    ELSE IF m.type = "analysis" /\ Has(m.data) THEN "analysis"
    ELSE "dropped"

\* The analysis branch of ws.onmessage on socket s.
OnAnalysis(s, m) ==
    LET data == Get(m.data)
        valid == IF Has(data.keypoints) THEN ValidKeypoints(Get(data.keypoints)) ELSE {}
        ops == IF mounted /\ Has(data.keypoints)
                 THEN drawSkeleton(Get(data.keypoints), mounted, mounted) ELSE << >>
        items == NewFeedback(m)
    IN  /\ lastAnalysis' = SetState(Some(data), lastAnalysis)
        /\ stats' = SetState(NewStats(data, sockets[s]), stats)
        /\ coordinateLogs' =
              IF valid # {}
                THEN SetState(Slice(<<[time |-> Clock, frame |-> data.frame_num, points |-> valid]>>
                                        \o coordinateLogs, LogsKept), coordinateLogs)
                ELSE coordinateLogs
        /\ overlay' = Canvas(overlay, ops)
        /\ drawn' = IF mounted /\ Has(data.keypoints)
                      THEN [keypoints |-> Get(data.keypoints), ops |-> ops, called |-> TRUE]
                      ELSE drawn
        /\ geminiResponse' = IF Triggered(m.gemini)
                               THEN SetState(Get(m.gemini).feedback, geminiResponse)
                               ELSE geminiResponse
        /\ recentFeedback' = SetState(Prepend(recentFeedback, items), recentFeedback)
        /\ appended' = IF mounted THEN appended \o items ELSE appended
        /\ IF items # << >> THEN speak(items[Len(items)].text) ELSE UNCHANGED speech
        /\ UNCHANGED error

\* An error branch that leaves the banner as it is.
OnErrorMessage_Ignored(m) == UNCHANGED error

\* The error branch of ws.onmessage: setError(response.message); a missing
\* or empty text is falsy and shows no banner.
OnErrorMessage(m) == error' = SetState(OrStr(m.message, "none"), error)

\* ws.onmessage of socket s delivering m.
OnMessage(s, m) ==
    /\ sockets[s].readyState = "OPEN"
    /\ Len(handled) < MaxMsgs
    /\ handled' = Append(handled, Dispatch(m))
    /\ lastMessage' = m
    /\ CASE Dispatch(m) = "analysis" -> OnAnalysis(s, m)
         [] Dispatch(m) = "welcome" ->
               /\ speak(OrStr(m.message, "connected"))
               /\ UNCHANGED <<error, stats, lastAnalysis, recentFeedback, geminiResponse,
                              coordinateLogs, overlay, drawn, appended>>
         [] Dispatch(m) = "error" ->
               /\ OnErrorMessage(m)
               /\ UNCHANGED <<speech, stats, lastAnalysis, recentFeedback, geminiResponse,
                              coordinateLogs, overlay, drawn, appended>>
         [] OTHER ->
               UNCHANGED <<error, speech, stats, lastAnalysis, recentFeedback, geminiResponse,
                           coordinateLogs, overlay, drawn, appended>>
    /\ UNCHANGED <<mounted, isStreaming, connectionStatus, wsRef, sockets, nSockets, streamRef,
                   streams, frameIntervalRef, intervals, reconnectTimeoutRef, timers, videoSrc,
                   starts, nStarts, lastCall, received>>
    /\ UNCHANGED nonMsg

\* A message event arrives for socket s and is queued behind the earlier ones.
Arrive(s, m) ==
    /\ sockets[s].readyState = "OPEN"
    /\ Len(received) < MaxMsgs
    /\ received' = Append(received, m)
    /\ UNCHANGED <<stats, lastAnalysis, recentFeedback, geminiResponse, coordinateLogs, overlay,
                   drawn, handled, lastMessage, appended>>
    /\ UNCHANGED <<mpVars, vdVars, sttVars, navigateCalls, hpVars, vmVars, sendLog, boardVars>>

\* An event loop that hands the newest queued event to the handler.
Deliver_Newest(s) ==
    /\ Len(handled) < Len(received)
    /\ OnMessage(s, received[Len(received)])

\* The event loop runs ws.onmessage of socket s on the oldest queued event;
\* the handler is synchronous and ends before the next event is taken.
Deliver(s) ==
    /\ Len(handled) < Len(received)
    /\ OnMessage(s, received[Len(handled) + 1])

\* A call of drawSkeleton with the argument held in drawn.
DrawSkeleton ==
    /\ ~drawn.called
    /\ drawn' = [drawn EXCEPT !.ops = drawSkeleton(drawn.keypoints, mounted, mounted),
                              !.called = TRUE]
    /\ overlay' = Canvas(overlay, drawn'.ops)
    /\ UNCHANGED <<stats, lastAnalysis, recentFeedback, geminiResponse, coordinateLogs,
                   handled, lastMessage, appended, received>>
    /\ UNCHANGED <<mpVars, vdVars, sttVars, navigateCalls, hpVars, vmVars, sendLog, boardVars>>

\* ------------------------------------------------------------------------
\* Inbound messages explored
\* ------------------------------------------------------------------------
\* Balance scores are in tenths: 72.4, 72.5, -72.5.
BalanceScores == {0, 724, 725, -725}

Payload(frame, balance, movement, emotion, posture, keypoints) ==
    [frame_num |-> frame, balance |-> balance, movement |-> movement, emotion |-> emotion,
     posture |-> posture, keypoints |-> keypoints,
     scores |-> TRUE, symmetry |-> TRUE, activities |-> TRUE]

StatsPayloads ==
    {Payload(f, b, e, em, p, Absent) :
        f \in {0, 7},
        b \in {Absent} \cup {Some(x) : x \in BalanceScores},
        e \in {Absent, Some(""), Some("High")},
        em \in {Absent, Some([emotion |-> "Happy", confidence |-> 90])},
        p \in {Absent, Some([status |-> "Good", angle |-> 10])}}

FullPayload == Payload(7, Some(725), Some("High"), Some([emotion |-> "Happy", confidence |-> 90]),
                       Some([status |-> "Good", angle |-> 10]), Absent)

KeypointPayloads ==
    {[FullPayload EXCEPT !.keypoints = Some(k)] :
        k \in {<< >>, <<Point(80), Point(60), NullPoint, Point(20)>>, <<Point(10), NullPoint>>}}

DroppedMessages ==
    {Message("invalid", "", Absent, Absent, Absent, Absent),
     Message("null", "", Absent, Absent, Absent, Absent),
     Message("object", "status", Some("text"), Some(FullPayload), Absent, Absent),
     Message("object", "analysis", Absent, Absent, Absent,
             Some([triggered |-> TRUE, feedback |-> "Stand up", reason |-> "posture"]))}

ControlMessages ==
    {Message("object", "welcome", Absent, Absent, Absent, Absent),
     Message("object", "welcome", Some("hello"), Absent, Absent, Absent),
     Message("object", "pong", Absent, Absent, Absent, Absent),
     Message("object", "error", Some("backend"), Absent, Absent, Absent)}

StatsMessages ==
    {Message("object", "analysis", Absent, Some(d), Absent, Absent) : d \in StatsPayloads}

DispatchMessages ==
    {Message("object", "analysis", Absent, Some(d), Absent, Absent) :
        d \in KeypointPayloads \cup {FullPayload}}
    \cup DroppedMessages \cup ControlMessages

GeminiPayloads ==
    {Absent} \cup {Some([triggered |-> t, feedback |-> f]) : t \in BOOLEAN, f \in {"", "Smile"}}
CoachingPayloads ==
    {Absent} \cup {Some([triggered |-> t, feedback |-> f, reason |-> "posture"]) :
                      t \in BOOLEAN, f \in {"", "Stand up"}}

FeedbackMessages ==
    {Message("object", "analysis", Absent, Some(FullPayload), g, c) :
        g \in GeminiPayloads, c \in CoachingPayloads}
    \cup {Message("object", "analysis", Absent, Absent,
                  Some([triggered |-> TRUE, feedback |-> "Smile"]),
                  Some([triggered |-> TRUE, feedback |-> "Stand up", reason |-> "posture"])),
          Message("object", "pong", Absent, Absent,
                  Some([triggered |-> TRUE, feedback |-> "Smile"]),
                  Some([triggered |-> TRUE, feedback |-> "Stand up", reason |-> "posture"]))}

\* One session: Start Session, camera granted, playback started, socket open.
OneSession ==
    \/ nStarts = 0 /\ StartStreaming
    \/ CameraGranted(1)
    \/ PlayResolved(1)
    \/ OnOpen(1)

NextStats ==
    \/ OneSession
    \/ \E s \in SocketIds, m \in StatsMessages : OnMessage(s, m)

NextDispatch ==
    \/ OneSession
    \/ \E s \in SocketIds, m \in DispatchMessages : OnMessage(s, m)

\* Two analysis messages that differ in every statistic and in their feedback,
\* and messages of the other kinds.
OtherPayload == Payload(9, Some(-725), Some("Low"), Some([emotion |-> "Sad", confidence |-> 40]),
                        Some([status |-> "Poor", angle |-> 30]), Absent)

OrderMessages ==
    {Message("object", "analysis", Absent, Some(FullPayload),
             Some([triggered |-> TRUE, feedback |-> "Smile"]),
             Some([triggered |-> TRUE, feedback |-> "Stand up", reason |-> "posture"])),
     Message("object", "analysis", Absent, Some(OtherPayload),
             Some([triggered |-> TRUE, feedback |-> "Slow down"]), Absent),
     Message("object", "analysis", Absent, Some(OtherPayload), Absent, Absent),
     Message("object", "analysis", Absent, Absent,
             Some([triggered |-> TRUE, feedback |-> "Smile"]), Absent),
     Message("object", "pong", Absent, Absent, Absent, Absent),
     Message("object", "error", Some("backend"), Absent, Absent, Absent)}

NextOrder ==
    \/ OneSession
    \/ \E s \in SocketIds, m \in OrderMessages : Arrive(s, m)
    \/ \E s \in SocketIds : Deliver(s)

\* Analysis messages with a skeleton to draw, with an empty keypoint list
\* and without a keypoint list.
SkeletonMessages ==
    {Message("object", "analysis", Absent, Some(d), Absent, Absent) :
        d \in KeypointPayloads \cup {FullPayload}}

\* Sessions started one after the other, each stopped with the Stop
\* button, while analysis messages arrive and the socket may drop.
NextStop ==
    \/ (\A i \in StartIds : starts[i].pc \in {NoStart.pc, "done"}) /\ StartStreaming
    \/ \E i \in StartIds : CameraGranted(i)
    \/ \E i \in StartIds : PlayResolved(i)
    \/ \E s \in SocketIds : OnOpen(s)
    \/ \E s \in SocketIds, m \in SkeletonMessages : OnMessage(s, m)
    \/ \E s \in SocketIds, o \in {"clean", "unclean"} : OnClose(s, o)
    \/ \E k \in StartIds : FrameTick(k, FALSE)
    \/ StopButton

\* Control messages, error messages with and without a text, and one
\* analysis message.
BannerMessages ==
    ControlMessages
    \cup {Message("object", "error", Absent, Absent, Absent, Absent),
          Message("object", "error", Some("overload"), Absent, Absent, Absent),
          Message("object", "analysis", Absent, Some(FullPayload), Absent, Absent)}

\* One session whose frame ticks are looked at from the first inbound
\* message on.
NextBanner ==
    \/ OneSession
    \/ \E s \in SocketIds, m \in BannerMessages : OnMessage(s, m)
    \/ handled # << >> /\ \E k \in StartIds : FrameTick(k, FALSE)

\* Sessions started one after the other, whose sends may throw, stopped
\* with the Stop button or dropped by the server.
NextSend ==
    \/ (\A i \in StartIds : starts[i].pc \in {NoStart.pc, "done"}) /\ StartStreaming
    \/ \E i \in StartIds : CameraGranted(i)
    \/ \E i \in StartIds : PlayResolved(i)
    \/ \E s \in SocketIds : OnOpen(s)
    \/ \E k \in StartIds, th \in BOOLEAN : SendTick(k, th)
    \/ \E s \in SocketIds, o \in {"clean", "unclean"} : OnClose(s, o)
    \/ StopButton

\* The "OpenPose Analysis" card of the render: shown once lastAnalysis is
\* set, it reads lastAnalysis.movement.movement_score and .velocity,
\* lastAnalysis.symmetry.arm_symmetry and lastAnalysis.activities.join
\* without optional chaining on the parent, and throws when one is missing.
RenderThrows(la) ==
    Has(la) /\ LET d == Get(la)
               IN  ~Has(d.movement) \/ ~d.scores \/ ~d.symmetry \/ ~d.activities

\* React renders the page. No error boundary is mounted above it, so an
\* exception thrown while rendering unmounts the page (its cleanup runs).
Render ==
    /\ mounted
    /\ IF RenderThrows(lastAnalysis) THEN Unmount ELSE UNCHANGED vars

\* A complete payload, the payload carrying only balance and keypoints, one
\* lacking only the activities list, one lacking only symmetry, and a pong.
PartialPayloads ==
    {[Payload(7, Some(725), Absent, Absent, Absent, Some(<<Point(80), Point(60)>>))
         EXCEPT !.scores = FALSE, !.symmetry = FALSE, !.activities = FALSE],
     [FullPayload EXCEPT !.activities = FALSE],
     [OtherPayload EXCEPT !.symmetry = FALSE]}

RenderMessages ==
    {Message("object", "analysis", Absent, Some(d), Absent, Absent) :
        d \in PartialPayloads \cup {FullPayload}}
    \cup {Message("object", "pong", Absent, Absent, Absent, Absent)}

NextRender ==
    \/ OneSession
    \/ \E s \in SocketIds, m \in RenderMessages : OnMessage(s, m)
    \/ Render

NextFeedback ==
    \/ OneSession
    \/ \E s \in SocketIds, m \in FeedbackMessages : OnMessage(s, m)

\* Keypoint lists explored: of length len, the points at the indices in
\* some are `one`, the others are `rest`.
MakeList(len, some, one, rest) == [k \in 1..len |-> IF (k - 1) \in some THEN one ELSE rest]

FewIndices == {S \in SUBSET (0..(NumKeypoints - 1)) : Cardinality(S) <= 2}

KeypointLists ==
    {MakeList(len, S, one, rest) :
        len \in {0, 1, 5, NumKeypoints - 1, NumKeypoints, NumKeypoints + 1},
        S \in FewIndices,
        one \in {NullPoint, Point(10), Point(20), Point(21), Point(80)},
        rest \in {NullPoint, Point(20), Point(60)}}


\* ------------------------------------------------------------------------
\* HomePage : createMeeting
\* ------------------------------------------------------------------------
CreateIds == 1..MaxCreates

\* session_id values of a creation response; "undefined" when the member is missing
SessionIds == {"abc", "undefined"}

\* How a createMeeting call ended
CreateEnds == {"navigated", "fetch failed", "not ok", "json failed"}

InitHP ==
    /\ hpMounted = TRUE
    /\ isCreating = FALSE
    /\ creates = [i \in CreateIds |-> "idle"]
    /\ nCreates = 0
    /\ alerts = 0

\* setIsCreating on the HomePage instance
SetCreating(new) == isCreating' = IF hpMounted THEN new ELSE isCreating

\* The "Create Meeting" button (disabled while isCreating): createMeeting up
\* to its first await.
CreateMeeting ==
    /\ hpMounted
    /\ ~isCreating
    /\ nCreates < MaxCreates
    /\ nCreates' = nCreates + 1
    /\ creates' = [creates EXCEPT ![nCreates + 1] = "awaitFetch"]
    /\ SetCreating(TRUE)
    /\ UNCHANGED <<hpMounted, alerts, navigateCalls>>
    /\ UNCHANGED nonHP

\* A catch block that swallows the failure.
CreateFailed_Silent(i, how) ==
    /\ creates' = [creates EXCEPT ![i] = how]
    /\ UNCHANGED alerts
    /\ SetCreating(FALSE)
    /\ UNCHANGED <<hpMounted, nCreates, navigateCalls>>
    /\ UNCHANGED nonHP

\* catch: alert(...); finally: setIsCreating(false)
CreateFailed(i, how) ==
    /\ creates' = [creates EXCEPT ![i] = how]
    /\ alerts' = alerts + 1
    /\ SetCreating(FALSE)
    /\ UNCHANGED <<hpMounted, nCreates, navigateCalls>>
    /\ UNCHANGED nonHP

\* fetch resolves: a response that is not ok throws into the catch
FetchResolved(i, ok) ==
    /\ creates[i] = "awaitFetch"
    /\ IF ok
         THEN /\ creates' = [creates EXCEPT ![i] = "awaitJson"]
              /\ UNCHANGED <<hpMounted, isCreating, nCreates, alerts, navigateCalls>>
              /\ UNCHANGED nonHP
         ELSE CreateFailed(i, "not ok")

\* fetch rejects (network failure)
FetchRejected(i) ==
    /\ creates[i] = "awaitFetch"
    /\ CreateFailed(i, "fetch failed")

\* response.json() resolves: onNavigate(`/meet/${data.session_id}`), then finally
JsonResolved(i, id) ==
    /\ creates[i] = "awaitJson"
    /\ creates' = [creates EXCEPT ![i] = "navigated"]
    /\ onNavigate(i, MeetPath(id))
    /\ SetCreating(FALSE)
    /\ UNCHANGED <<hpMounted, nCreates, alerts>>
    /\ UNCHANGED nonHP

\* response.json() rejects (the body is not JSON)
JsonRejected(i) ==
    /\ creates[i] = "awaitJson"
    /\ CreateFailed(i, "json failed")

\* App renders MeetingPage in place of HomePage after a navigation to a meeting.
HomeUnmounts ==
    /\ hpMounted
    /\ \E i \in CreateIds : creates[i] = "navigated"
    /\ \A i \in CreateIds : creates[i] \notin {"awaitFetch", "awaitJson"}
    /\ navigateCalls # << >> /\ navigateCalls[Len(navigateCalls)].path.prefix = "/meet/"
    /\ hpMounted' = FALSE
    /\ UNCHANGED <<isCreating, creates, nCreates, alerts, navigateCalls>>
    /\ UNCHANGED nonHP

\* App renders a new HomePage: its state starts afresh.
HomeMounts ==
    /\ ~hpMounted
    /\ hpMounted' = TRUE
    /\ isCreating' = FALSE
    /\ UNCHANGED <<creates, nCreates, alerts, navigateCalls>>
    /\ UNCHANGED nonHP

NextHome ==
    \/ CreateMeeting
    \/ \E i \in CreateIds, ok \in BOOLEAN : FetchResolved(i, ok)
    \/ \E i \in CreateIds : FetchRejected(i)
    \/ \E i \in CreateIds, id \in SessionIds : JsonResolved(i, id)
    \/ \E i \in CreateIds : JsonRejected(i)
    \/ HomeUnmounts
    \/ HomeMounts

\* ------------------------------------------------------------------------
\* MeetingPage : verifyMeeting (mount effect)
\* ------------------------------------------------------------------------
\* The effect has run at mount: the lookup is in flight.
InitVM ==
    /\ verify = "awaitFetch"
    /\ meetingLink = ""
    /\ redirectTimers = << >>
    /\ clock = 0

\* What verifyMeeting leaves alone in the page
nonVerify == <<mounted, isStreaming, connectionStatus, wsRef, sockets, nSockets, streamRef,
               streams, frameIntervalRef, intervals, reconnectTimeoutRef, timers, videoSrc,
               speech, starts, nStarts, lastCall, vdVars, sttVars, anVars, hpVars, sendLog, boardVars>>

\* A failure path that shows the error and stays on the page.
VerifyFailed_NoRedirect(how, message) ==
    /\ verify' = how
    /\ error' = SetState(message, error)
    /\ UNCHANGED <<redirectTimers, meetingLink, clock, navigateCalls>>
    /\ UNCHANGED nonVerify

\* setError(message); setTimeout(() => onNavigate('/'), 2000)
VerifyFailed(how, message) ==
    /\ verify' = how
    /\ error' = SetState(message, error)
    /\ redirectTimers' = Append(redirectTimers, [armed |-> clock, state |-> "pending"])
    /\ UNCHANGED <<meetingLink, clock, navigateCalls>>
    /\ UNCHANGED nonVerify

\* fetch of /api/meeting/<sessionId> resolves
VerifyResponse(ok) ==
    /\ verify = "awaitFetch"
    /\ IF ok
         THEN /\ verify' = "awaitJson"
              /\ UNCHANGED <<error, meetingLink, redirectTimers, clock, navigateCalls>>
              /\ UNCHANGED nonVerify
         ELSE VerifyFailed("not ok", "Meeting not found or expired")

\* fetch rejects
VerifyRejected ==
    /\ verify = "awaitFetch"
    /\ VerifyFailed("fetch failed", "Failed to verify meeting")

\* response.json() resolves: setMeetingLink
VerifyJson ==
    /\ verify = "awaitJson"
    /\ verify' = "verified"
    /\ meetingLink' = SetState("link", meetingLink)
    /\ UNCHANGED <<error, redirectTimers, clock, navigateCalls>>
    /\ UNCHANGED nonVerify

\* response.json() rejects
VerifyJsonRejected ==
    /\ verify = "awaitJson"
    /\ VerifyFailed("json failed", "Failed to verify meeting")

\* The redirect timer fires; nothing clears it, mounted or not.
RedirectTimeout(t) ==
    /\ t \in 1..Len(redirectTimers)
    /\ redirectTimers[t].state = "pending"
    /\ clock >= redirectTimers[t].armed + RedirectDelay
    /\ redirectTimers' = [redirectTimers EXCEPT ![t].state = "fired"]
    /\ onNavigate("verify", RootPath)
    /\ UNCHANGED <<verify, error, meetingLink, clock>>
    /\ UNCHANGED nonVerify

\* Time passes; a due timer fires before more time passes.
Tick ==
    /\ clock < MaxClock
    /\ \A t \in 1..Len(redirectTimers) :
          redirectTimers[t].state = "pending" => clock < redirectTimers[t].armed + RedirectDelay
    /\ clock' = clock + 1
    /\ UNCHANGED <<verify, error, meetingLink, redirectTimers, navigateCalls>>
    /\ UNCHANGED nonVerify

NextVerify ==
    \/ \E ok \in BOOLEAN : VerifyResponse(ok)
    \/ VerifyRejected
    \/ VerifyJson
    \/ VerifyJsonRejected
    \/ \E t \in 1..MaxStarts : RedirectTimeout(t)
    \/ Tick
    \/ StartStreaming
    \/ \E i \in StartIds : CameraDenied(i)
    \/ HomeButton
    \/ Unmount

InitSkeleton ==
    /\ InitMP /\ InitVD /\ InitSTT /\ navigateCalls = << >> /\ InitHP /\ InitVM /\ sendLog = << >> /\ InitBoards
    /\ stats = InitialStats
    /\ lastAnalysis = Absent
    /\ recentFeedback = << >>
    /\ geminiResponse = ""
    /\ coordinateLogs = << >>
    /\ overlay = << >>
    /\ drawn \in {[keypoints |-> k, ops |-> << >>, called |-> FALSE] : k \in KeypointLists}
    /\ handled = << >>
    /\ lastMessage = NoMessage
    /\ appended = << >>
    /\ received = << >>

NextSkeleton == DrawSkeleton

\* Short keypoint lists over null and the confidences at and just above
\* each edge of the colour bands.
BandPoints == {NullPoint} \cup {Point(c) : c \in {ConfidenceThreshold, ConfidenceThreshold + 1,
                                                  YellowAbove, YellowAbove + 1,
                                                  RedAbove, RedAbove + 1, 100}}
BandLists ==
    {<<p, q>> : p \in BandPoints, q \in BandPoints}
    \cup {<<p, q, r>> : p \in BandPoints, q \in BandPoints, r \in BandPoints}

InitBands ==
    /\ InitMP /\ InitVD /\ InitSTT /\ navigateCalls = << >> /\ InitHP /\ InitVM /\ sendLog = << >> /\ InitBoards
    /\ stats = InitialStats
    /\ lastAnalysis = Absent
    /\ recentFeedback = << >>
    /\ geminiResponse = ""
    /\ coordinateLogs = << >>
    /\ overlay = << >>
    /\ drawn \in {[keypoints |-> k, ops |-> << >>, called |-> FALSE] : k \in BandLists}
    /\ handled = << >>
    /\ lastMessage = NoMessage
    /\ appended = << >>
    /\ received = << >>

NextBands == DrawSkeleton

\* The page after an earlier session that logged n frames, the last one
\* with two confident keypoints: the log, stats and lastAnalysis survive
\* stopStreaming.
LoggedPayload == [FullPayload EXCEPT !.keypoints = Some(<<Point(80), Point(60)>>)]
EarlierLogs(n) == [k \in 1..n |-> [time |-> 0, frame |-> 7, points |-> {0, 1}]]

InitLogs ==
    /\ InitMP /\ InitVD /\ InitSTT /\ navigateCalls = << >> /\ InitHP /\ InitVM /\ sendLog = << >> /\ InitBoards
    /\ \E n \in {0, LogsKept - 1, LogsKept} :
          /\ coordinateLogs = EarlierLogs(n)
          /\ lastAnalysis = IF n = 0 THEN Absent ELSE Some(LoggedPayload)
          /\ stats = IF n = 0 THEN InitialStats
                     ELSE [frameCount |-> 7, balance |-> 725, energy |-> "High", emotion |-> "Happy",
                           emotionConfidence |-> 90, posture |-> "Good", postureAngle |-> 10]
    /\ recentFeedback = << >>
    /\ geminiResponse = ""
    /\ overlay = << >>
    /\ drawn = NotDrawn
    /\ handled = << >>
    /\ lastMessage = NoMessage
    /\ appended = << >>
    /\ received = << >>

\* Analysis messages with and without keypoints above the confidence
\* floor, one with a keypoint exactly at the floor, and a pong.
LogMessages ==
    SkeletonMessages
    \cup {Message("object", "analysis", Absent,
                  Some([FullPayload EXCEPT !.keypoints = Some(<<Point(ConfidenceThreshold), NullPoint>>)]),
                  Absent, Absent),
          Message("object", "pong", Absent, Absent, Absent, Absent)}

NextLogs ==
    \/ OneSession
    \/ \E s \in SocketIds, m \in LogMessages : OnMessage(s, m)

\* ------------------------------------------------------------------------
\* The mock-data dashboard: startStreaming, the frame loop, stopStreaming
\* ------------------------------------------------------------------------
\* WebSocket.close() seen on readyState
CloseState(rs) == IF rs \in {"CONNECTING", "OPEN"} THEN "CLOSING" ELSE rs

\* The "Start Session" button (shown while !isStreaming): startStreaming up
\* to its await of getUserMedia.
MockStartStreaming ==
    /\ ~mockIsStreaming
    /\ nMock < MaxDashStarts
    /\ nMock' = nMock + 1
    /\ mockSessions' = [mockSessions EXCEPT ![nMock + 1].pc = "awaitCamera"]
    /\ UNCHANGED <<mockIsStreaming, mockConnectionStatus, mockStreamRef, mockWsVideoRef,
                   mockWsAudioRef, mockAudioContextRef, mockFrameCount, mockLoops,
                   mockAnimationFrameRef, mockDirty, mockSent>>
    /\ UNCHANGED <<mpVars, vdVars, sttVars, anVars, navigateCalls, hpVars, vmVars, sendLog, dashVars>>

\* getUserMedia resolves: the stream is stored, connectWebSockets() makes the
\* two sockets and the audio context (isAudioEnabled at its default), and
\* setIsStreaming(true). The processFrames() called here closed over
\* isStreaming = false (the button is shown only then): it returns at once.
MockCameraGranted(i) ==
    /\ mockSessions[i].pc = "awaitCamera"
    /\ mockSessions' = [mockSessions EXCEPT ![i] =
          [pc |-> "done", tracks |-> "live", video |-> "CONNECTING", audio |-> "CONNECTING",
           context |-> "running", interval |-> "none"]]
    /\ mockStreamRef' = i
    /\ mockWsVideoRef' = i
    /\ mockWsAudioRef' = i
    /\ mockAudioContextRef' = i
    /\ mockConnectionStatus' = "connecting"
    /\ mockIsStreaming' = TRUE
    /\ mockDirty' = (mockDirty \/ ~mockIsStreaming)
    /\ UNCHANGED <<nMock, mockFrameCount, mockLoops, mockAnimationFrameRef, mockSent>>
    /\ UNCHANGED <<mpVars, vdVars, sttVars, anVars, navigateCalls, hpVars, vmVars, sendLog, dashVars>>

\* getUserMedia rejects: catch, alert
MockCameraDenied(i) ==
    /\ mockSessions[i].pc = "awaitCamera"
    /\ mockSessions' = [mockSessions EXCEPT ![i].pc = "denied"]
    /\ UNCHANGED <<mockIsStreaming, mockConnectionStatus, nMock, mockStreamRef, mockWsVideoRef,
                   mockWsAudioRef, mockAudioContextRef, mockFrameCount, mockLoops,
                   mockAnimationFrameRef, mockDirty, mockSent>>
    /\ UNCHANGED <<mpVars, vdVars, sttVars, anVars, navigateCalls, hpVars, vmVars, sendLog, dashVars>>

\* processFrame of loop l, made by a processFrames that closed over
\* isStreaming = true: setStats (frameCount + 1, which gives processFrames a
\* new identity), send if the video socket is open, requestAnimationFrame.
processFrame(l) ==
    /\ mockFrameCount < MaxFrames
    /\ mockFrameCount' = mockFrameCount + 1
    /\ mockSent' = IF mockWsVideoRef # Null /\ mockSessions[mockWsVideoRef].video = "OPEN"
                     THEN mockSent + 1 ELSE mockSent
    /\ mockLoops' = [mockLoops EXCEPT ![l] = "pending"]
    /\ mockAnimationFrameRef' = l
    /\ mockDirty' = TRUE

NumLoops == Cardinality({l \in LoopIds : mockLoops[l] # "none"})

\* useEffect(() => { if (isStreaming) processFrames(); }, [isStreaming,
\* processFrames]): runs after a render in which a dependency changed, and
\* returns no cleanup. processFrames() starts a loop with its first frame.
MockEffect ==
    /\ mockDirty
    /\ IF mockIsStreaming
         THEN /\ NumLoops < MaxLoops
              /\ processFrame(NumLoops + 1)
         ELSE /\ mockDirty' = FALSE
              /\ UNCHANGED <<mockFrameCount, mockLoops, mockAnimationFrameRef, mockSent>>
    /\ UNCHANGED <<mockIsStreaming, mockConnectionStatus, mockSessions, nMock, mockStreamRef,
                   mockWsVideoRef, mockWsAudioRef, mockAudioContextRef>>
    /\ UNCHANGED <<mpVars, vdVars, sttVars, anVars, navigateCalls, hpVars, vmVars, sendLog, dashVars>>

\* The animation frame requested by loop l arrives.
MockAnimationFrame(l) ==
    /\ mockLoops[l] = "pending"
    /\ processFrame(l)
    /\ UNCHANGED <<mockIsStreaming, mockConnectionStatus, mockSessions, nMock, mockStreamRef,
                   mockWsVideoRef, mockWsAudioRef, mockAudioContextRef>>
    /\ UNCHANGED <<mpVars, vdVars, sttVars, anVars, navigateCalls, hpVars, vmVars, sendLog, dashVars>>

\* The "Stop Session" button (shown while isStreaming): stopStreaming stops
\* the tracks, closes both sockets, cancels the animation frame held in
\* animationFrameRef, setIsStreaming(false), setConnectionStatus.
MockStopStreaming ==
    /\ mockIsStreaming
    /\ mockSessions' = [i \in DashIds |->
          [mockSessions[i] EXCEPT
              !.tracks = IF i = mockStreamRef /\ @ = "live" THEN "stopped" ELSE @,
              !.video = IF i = mockWsVideoRef THEN CloseState(@) ELSE @,
              !.audio = IF i = mockWsAudioRef THEN CloseState(@) ELSE @]]
    /\ mockLoops' = [l \in LoopIds |->
          IF l = mockAnimationFrameRef /\ mockLoops[l] = "pending" THEN "cancelled"
          ELSE mockLoops[l]]
    /\ mockIsStreaming' = FALSE
    /\ mockConnectionStatus' = "disconnected"
    /\ mockDirty' = TRUE
    /\ UNCHANGED <<nMock, mockStreamRef, mockWsVideoRef, mockWsAudioRef, mockAudioContextRef,
                   mockFrameCount, mockAnimationFrameRef, mockSent>>
    /\ UNCHANGED <<mpVars, vdVars, sttVars, anVars, navigateCalls, hpVars, vmVars, sendLog, dashVars>>

\* onopen of the video socket of session i
MockOnOpen(i) ==
    /\ mockSessions[i].video = "CONNECTING"
    /\ mockSessions' = [mockSessions EXCEPT ![i].video = "OPEN"]
    /\ mockConnectionStatus' = "connected"
    /\ UNCHANGED <<mockIsStreaming, nMock, mockStreamRef, mockWsVideoRef, mockWsAudioRef,
                   mockAudioContextRef, mockFrameCount, mockLoops, mockAnimationFrameRef,
                   mockDirty, mockSent>>
    /\ UNCHANGED <<mpVars, vdVars, sttVars, anVars, navigateCalls, hpVars, vmVars, sendLog, dashVars>>

\* onclose of the video socket of session i
MockOnClose(i) ==
    /\ mockSessions[i].video \in {"OPEN", "CLOSING"}
    /\ mockSessions' = [mockSessions EXCEPT ![i].video = "CLOSED"]
    /\ mockConnectionStatus' = "disconnected"
    /\ UNCHANGED <<mockIsStreaming, nMock, mockStreamRef, mockWsVideoRef, mockWsAudioRef,
                   mockAudioContextRef, mockFrameCount, mockLoops, mockAnimationFrameRef,
                   mockDirty, mockSent>>
    /\ UNCHANGED <<mpVars, vdVars, sttVars, anVars, navigateCalls, hpVars, vmVars, sendLog, dashVars>>

NextMock ==
    \/ MockStartStreaming
    \/ \E i \in DashIds : MockCameraGranted(i)
    \/ \E i \in DashIds : MockCameraDenied(i)
    \/ MockEffect
    \/ \E l \in LoopIds : MockAnimationFrame(l)
    \/ MockStopStreaming
    \/ \E i \in DashIds : MockOnOpen(i)
    \/ \E i \in DashIds : MockOnClose(i)

\* ------------------------------------------------------------------------
\* The frame-streaming dashboard: startStreaming, stopStreaming, the video
\* socket's events
\* ------------------------------------------------------------------------
\* The "Start Session" button (shown while !isStreaming): startStreaming up
\* to its await of getUserMedia.
DashStartStreaming ==
    /\ ~dashIsStreaming
    /\ nDash < MaxDashStarts
    /\ nDash' = nDash + 1
    /\ dashSessions' = [dashSessions EXCEPT ![nDash + 1].pc = "awaitCamera"]
    /\ dashLastCall' = "start"
    /\ UNCHANGED <<dashIsStreaming, dashConnectionStatus, dashStreamRef, dashWsVideoRef,
                   dashWsAudioRef, dashAudioContextRef, dashFrameIntervalRef, dashVideoSrc,
                   dashLastAnalysis, dashOverlay>>
    /\ UNCHANGED <<mpVars, vdVars, sttVars, anVars, navigateCalls, hpVars, vmVars, sendLog, mockVars>>

\* getUserMedia resolves: the stream is stored and attached, then await play()
DashCameraGranted(i) ==
    /\ dashSessions[i].pc = "awaitCamera"
    /\ dashSessions' = [dashSessions EXCEPT ![i].pc = "awaitPlay", ![i].tracks = "live"]
    /\ dashStreamRef' = i
    /\ dashVideoSrc' = i
    /\ UNCHANGED <<dashIsStreaming, dashConnectionStatus, nDash, dashWsVideoRef, dashWsAudioRef,
                   dashAudioContextRef, dashFrameIntervalRef, dashLastAnalysis, dashOverlay,
                   dashLastCall>>
    /\ UNCHANGED <<mpVars, vdVars, sttVars, anVars, navigateCalls, hpVars, vmVars, sendLog, mockVars>>

\* getUserMedia rejects: catch, alert
DashCameraDenied(i) ==
    /\ dashSessions[i].pc = "awaitCamera"
    /\ dashSessions' = [dashSessions EXCEPT ![i].pc = "denied"]
    /\ UNCHANGED <<dashIsStreaming, dashConnectionStatus, nDash, dashStreamRef, dashWsVideoRef,
                   dashWsAudioRef, dashAudioContextRef, dashFrameIntervalRef, dashVideoSrc,
                   dashLastAnalysis, dashOverlay, dashLastCall>>
    /\ UNCHANGED <<mpVars, vdVars, sttVars, anVars, navigateCalls, hpVars, vmVars, sendLog, mockVars>>

\* play() settles. Resolved: connectWebSockets() makes the two sockets and
\* the audio context (isAudioEnabled at its default), setIsStreaming(true),
\* setInterval(captureAndSendFrame). Rejected: catch, alert.
DashPlaySettled(i, ok) ==
    /\ dashSessions[i].pc = "awaitPlay"
    /\ IF ok
         THEN /\ dashSessions' = [dashSessions EXCEPT ![i].pc = "done", ![i].video = "CONNECTING",
                                     ![i].audio = "CONNECTING", ![i].context = "running",
                                     ![i].interval = "active"]
              /\ dashWsVideoRef' = i
              /\ dashWsAudioRef' = i
              /\ dashAudioContextRef' = i
              /\ dashFrameIntervalRef' = i
              /\ dashConnectionStatus' = "connecting"
              /\ dashIsStreaming' = TRUE
         ELSE /\ dashSessions' = [dashSessions EXCEPT ![i].pc = "playFailed"]
              /\ UNCHANGED <<dashWsVideoRef, dashWsAudioRef, dashAudioContextRef,
                             dashFrameIntervalRef, dashConnectionStatus, dashIsStreaming>>
    /\ UNCHANGED <<nDash, dashStreamRef, dashVideoSrc, dashLastAnalysis, dashOverlay, dashLastCall>>
    /\ UNCHANGED <<mpVars, vdVars, sttVars, anVars, navigateCalls, hpVars, vmVars, sendLog, mockVars>>

\* The "Stop Session" button (shown while isStreaming): stopStreaming
\* releases what each ref holds and sets the ref to null, then resets the
\* state and clears the overlay.
DashStopStreaming ==
    /\ dashIsStreaming
    /\ dashSessions' = [i \in DashIds |->
          [dashSessions[i] EXCEPT
              !.interval = IF i = dashFrameIntervalRef /\ @ = "active" THEN "cleared" ELSE @,
              !.tracks = IF i = dashStreamRef /\ @ = "live" THEN "stopped" ELSE @,
              !.video = IF i = dashWsVideoRef THEN CloseState(@) ELSE @,
              !.audio = IF i = dashWsAudioRef THEN CloseState(@) ELSE @,
              !.context = IF i = dashAudioContextRef /\ @ = "running" THEN "closed" ELSE @]]
    /\ dashFrameIntervalRef' = Null
    /\ dashStreamRef' = Null
    /\ dashWsVideoRef' = Null
    /\ dashWsAudioRef' = Null
    /\ dashAudioContextRef' = Null
    /\ dashVideoSrc' = Null
    /\ dashIsStreaming' = FALSE
    /\ dashConnectionStatus' = "disconnected"
    /\ dashLastAnalysis' = FALSE
    /\ dashOverlay' = "clear"
    /\ dashLastCall' = "stop"
    /\ UNCHANGED nDash
    /\ UNCHANGED <<mpVars, vdVars, sttVars, anVars, navigateCalls, hpVars, vmVars, sendLog, mockVars>>

\* onopen of the video socket of session i
DashOnOpen(i) ==
    /\ dashSessions[i].video = "CONNECTING"
    /\ dashSessions' = [dashSessions EXCEPT ![i].video = "OPEN"]
    /\ dashConnectionStatus' = "connected"
    /\ UNCHANGED <<dashIsStreaming, nDash, dashStreamRef, dashWsVideoRef, dashWsAudioRef,
                   dashAudioContextRef, dashFrameIntervalRef, dashVideoSrc, dashLastAnalysis,
                   dashOverlay, dashLastCall>>
    /\ UNCHANGED <<mpVars, vdVars, sttVars, anVars, navigateCalls, hpVars, vmVars, sendLog, mockVars>>

\* onclose of the video socket of session i
DashOnClose(i) ==
    /\ dashSessions[i].video \in {"OPEN", "CLOSING"}
    /\ dashSessions' = [dashSessions EXCEPT ![i].video = "CLOSED"]
    /\ dashConnectionStatus' = "disconnected"
    /\ UNCHANGED <<dashIsStreaming, nDash, dashStreamRef, dashWsVideoRef, dashWsAudioRef,
                   dashAudioContextRef, dashFrameIntervalRef, dashVideoSrc, dashLastAnalysis,
                   dashOverlay, dashLastCall>>
    /\ UNCHANGED <<mpVars, vdVars, sttVars, anVars, navigateCalls, hpVars, vmVars, sendLog, mockVars>>

\* onmessage of the video socket of session i, for a response that carries
\* keypoints: setLastAnalysis, setStats, clearRect and drawSkeleton.
DashOnMessage(i) ==
    /\ dashSessions[i].video = "OPEN"
    /\ dashLastAnalysis' = TRUE
    /\ dashOverlay' = "drawn"
    /\ UNCHANGED <<dashIsStreaming, dashConnectionStatus, dashSessions, nDash, dashStreamRef,
                   dashWsVideoRef, dashWsAudioRef, dashAudioContextRef, dashFrameIntervalRef,
                   dashVideoSrc, dashLastCall>>
    /\ UNCHANGED <<mpVars, vdVars, sttVars, anVars, navigateCalls, hpVars, vmVars, sendLog, mockVars>>

NextDash ==
    \/ DashStartStreaming
    \/ \E i \in DashIds : DashCameraGranted(i)
    \/ \E i \in DashIds : DashCameraDenied(i)
    \/ \E i \in DashIds, ok \in BOOLEAN : DashPlaySettled(i, ok)
    \/ DashStopStreaming
    \/ \E i \in DashIds : DashOnOpen(i)
    \/ \E i \in DashIds : DashOnClose(i)
    \/ \E i \in DashIds : DashOnMessage(i)

\* The route App renders: the path of the latest navigate call.
CurrentRoute ==
    IF navigateCalls = << >> THEN RootPath ELSE navigateCalls[Len(navigateCalls)].path

\* App renders a MeetingPage for a '/meet/' route: a new instance whose
\* state and refs start afresh and whose mount effect calls verifyMeeting.
\* Sockets, streams and timers made by earlier instances stay what they are.
\* (Explored once the lookup of the earlier instance has ended.)
MeetingMounts ==
    /\ ~mounted
    /\ CurrentRoute.prefix = "/meet/"
    /\ verify \notin {"awaitFetch", "awaitJson"}
    /\ mounted' = TRUE
    /\ isStreaming' = FALSE
    /\ connectionStatus' = "disconnected"
    /\ error' = "none"
    /\ wsRef' = Null
    /\ streamRef' = Null
    /\ frameIntervalRef' = Null
    /\ reconnectTimeoutRef' = Null
    /\ videoSrc' = Null
    /\ stats' = InitialStats
    /\ lastAnalysis' = Absent
    /\ recentFeedback' = << >>
    /\ geminiResponse' = ""
    /\ coordinateLogs' = << >>
    /\ overlay' = << >>
    /\ verify' = "awaitFetch"
    /\ meetingLink' = ""
    /\ UNCHANGED <<sockets, nSockets, streams, intervals, timers, speech, starts, nStarts,
                   lastCall, drawn, handled, lastMessage, appended, received,
                   redirectTimers, clock, navigateCalls, vdVars, sttVars, hpVars, sendLog, boardVars>>

\* The state after HomePage created meeting 1 and App replaced it by the
\* MeetingPage of that meeting.
InitLeave ==
    /\ InitMP /\ InitVD /\ InitSTT /\ InitAN /\ InitVM /\ sendLog = << >> /\ InitBoards
    /\ navigateCalls = <<[by |-> 1, path |-> MeetPath("abc")]>>
    /\ hpMounted = FALSE
    /\ isCreating = FALSE
    /\ creates = [i \in CreateIds |-> IF i = 1 THEN "navigated" ELSE "idle"]
    /\ nCreates = 1
    /\ alerts = 0

\* The user on a meeting page whose lookup may fail, who may go home and
\* create another meeting; App mounts the page of the current route.
NextLeave ==
    \/ \E ok \in BOOLEAN : VerifyResponse(ok)
    \/ VerifyRejected
    \/ VerifyJson
    \/ VerifyJsonRejected
    \/ \E t \in CreateIds : RedirectTimeout(t)
    \/ Tick
    \/ HomeButton
    \/ CurrentRoute = RootPath /\ Unmount
    \/ ~mounted /\ CurrentRoute = RootPath /\ HomeMounts
    \/ CreateMeeting
    \/ \E i \in CreateIds : FetchResolved(i, TRUE)
    \/ \E i \in CreateIds : JsonResolved(i, "abc")
    \/ HomeUnmounts
    \/ ~hpMounted /\ MeetingMounts

Init == InitMP /\ InitVD /\ InitSTT /\ InitAN /\ navigateCalls = << >> /\ InitHP /\ InitVM /\ sendLog = << >> /\ InitBoards

SpecMP == Init /\ [][NextMP]_vars
SpecSeq == Init /\ [][NextSeq]_vars
SpecVD == Init /\ [][NextVD]_vars
SpecSTT == Init /\ [][NextSTT]_vars
SpecStats == Init /\ [][NextStats]_vars
SpecFeedback == Init /\ [][NextFeedback]_vars
SpecDispatch == Init /\ [][NextDispatch]_vars
SpecSkeleton == InitSkeleton /\ [][NextSkeleton]_vars
SpecHome == Init /\ [][NextHome]_vars
SpecVerify == Init /\ [][NextVerify]_vars
SpecOrder == Init /\ [][NextOrder]_vars
SpecStop == Init /\ [][NextStop]_vars
SpecBanner == Init /\ [][NextBanner]_vars
SpecSend == Init /\ [][NextSend]_vars
SpecBands == InitBands /\ [][NextBands]_vars
SpecRender == Init /\ [][NextRender]_vars
SpecLogs == InitLogs /\ [][NextLogs]_vars
SpecLeave == InitLeave /\ [][NextLeave]_vars
SpecMock == Init /\ [][NextMock]_vars
SpecDash == Init /\ [][NextDash]_vars
Spec == SpecMP

\* ------------------------------------------------------------------------
\* Resources of the page
\* ------------------------------------------------------------------------
LiveSockets == {s \in SocketIds : sockets[s].readyState \in {"CONNECTING", "OPEN"}}
LiveStreams == {i \in StartIds : streams[i] = "live"}
ActiveIntervals == {i \in StartIds : intervals[i] = "active"}
PendingTimers == {t \in 1..Len(timers) : timers[t].state = "pending"}

\* Every socket is constructed by a startStreaming clicked while isStreaming
\* was false, through the connectWebSocket of that render: its onclose
\* handler reads isStreaming = false and arms no reconnect timer.
ReconnectNeverArmed ==
    /\ timers = <<>>
    /\ reconnectTimeoutRef = Null
    /\ \A s \in SocketIds : ~sockets[s].isStreaming

\* ------------------------------------------------------------------------
\* Claims
\* ------------------------------------------------------------------------

\* C1: after start / stop calls made one after the other, each completed,
\* the last one a stopStreaming, there is no open or connecting socket, no
\* live media track, no frame-capture interval and no pending reconnect timer.
C1_NoLeakAfterCycles ==
    (lastCall = "stop" /\ ~StartInFlight) =>
        /\ LiveSockets = {}
        /\ LiveStreams = {}
        /\ ActiveIntervals = {}
        /\ PendingTimers = {}

\* Two full sessions were streamed (each socket opened and got its "end") and stopped.
C1_Witness ==
    /\ lastCall = "stop"
    /\ nStarts >= 2
    /\ \A s \in 1..2 : \E k \in 1..Len(sockets[s].log) : sockets[s].log[k] = "end"
    /\ \A i \in 1..2 : streams[i] = "stopped" /\ intervals[i] = "cleared"

\* C2 (as claimed): in every reachable state at most one socket, one media
\* stream and one frame interval are live, and none is live once the
\* session was stopped or the page unmounted.
C2_OneLiveResourceEach ==
    /\ Cardinality(LiveSockets) <= 1
    /\ Cardinality(LiveStreams) <= 1
    /\ Cardinality(ActiveIntervals) <= 1
    /\ (lastCall = "stop" \/ ~mounted) =>
           LiveSockets = {} /\ LiveStreams = {} /\ ActiveIntervals = {}

\* The socket held in wsRef ends uncleanly / cleanly while streaming is active.
UncleanCloseWhileStreaming(s) ==
    /\ mounted /\ isStreaming /\ wsRef = s
    /\ OnClose(s, "unclean") \/ OnClose(s, "failed")
CleanClose(s) == OnClose(s, "clean")

\* C3 (as claimed): an unclean close while streaming arms exactly one
\* reconnect timer (whose callback re-invokes connectWebSocket); a clean
\* close arms none.
C3_ReconnectScheduled ==
    [][\A s \in SocketIds :
          /\ UncleanCloseWhileStreaming(s) =>
                /\ Len(timers') = Len(timers) + 1
                /\ reconnectTimeoutRef' = Len(timers')
                /\ timers'[Len(timers')].state = "pending"
                /\ timers'[Len(timers')].isStreaming
          /\ CleanClose(s) => UNCHANGED <<timers, reconnectTimeoutRef>>]_vars

\* C4 (as claimed): close() on an open socket is preceded by an "end"
\* message on that socket, and no frame follows an "end".
C4_EndBeforeClose ==
    \A s \in SocketIds :
        LET log == sockets[s].log IN
        \A k \in 1..Len(log) :
            /\ log[k] = "close_open" => k > 1 /\ log[k - 1] = "end"
            /\ log[k] = "frame" => \A j \in 1..(k - 1) : log[j] # "end"

\* A step in which connectWebSocket is invoked.
ConnectInvoked ==
    \/ \E i \in StartIds : PlayResolved(i)
    \/ \E i \in StartIds : ~mounted /\ CameraGranted(i)
    \/ \E t \in 1..MaxSockets : ReconnectTimeout(t) /\ timers[t].isStreaming

C6_FramesOnlyWhenOpen ==
    [][/\ \A s \in SocketIds :
             Frames(sockets'[s]) > Frames(sockets[s]) =>
                /\ \E k \in StartIds : FrameTick(k, FALSE)
                /\ wsRef = s /\ sockets[s].readyState = "OPEN"
                /\ lastCall # "stop"
       /\ \A k \in StartIds, th \in BOOLEAN :
             (FrameTick(k, th) /\ ~FrameReady) => UNCHANGED vars]_vars

\* A startStreaming call fails.
StartFails(i) == CameraDenied(i) \/ PlayRejected(i)

\* C7 (as claimed): a failing startStreaming surfaces an error, leaves
\* isStreaming as it was, creates no socket, starts no interval, leaves no
\* media stream of its own live and ends for good.
C7_FailedStartAborts ==
    [][\A i \in StartIds : StartFails(i) =>
          /\ mounted => error' = "camera"
          /\ UNCHANGED <<isStreaming, sockets, nSockets, wsRef, intervals, frameIntervalRef>>
          /\ streams'[i] # "live"
          /\ starts'[i].pc = "failed"]_vars

\* C8: the unmount cleanup starts no utterance and silences the one in
\* flight, whatever the state.
C8_UnmountSilent == [][(Unmount \/ HomeButton) => speech' = "none"]_vars

\* The page was unmounted while streaming with an open socket, and is silent.
C8_Witness ==
    /\ ~mounted /\ isStreaming /\ speech = "none"
    /\ wsRef # Null /\ sockets[wsRef].readyState = "CLOSING"

\* C9 (as claimed): isListening is true exactly when some startListening
\* has succeeded and no stopListening was called after that call was made;
\* a denied start, or a start overtaken by a stopListening while it awaited
\* the microphone, does not make the detector listen.
C9_ListeningIffStarted == vdMounted => (vdState.isListening <=> listening)

\* An analysis (first call or animation frame) that measures energy e.
Analysed(e) ==
    \/ \E i \in ListenIds : MicGranted(i, e)
    \/ \E l \in ListenIds : analyserRef # Null /\ AudioTick(l, e)

\* C10: onSpeechEnd is called only when no analysis measured energy above
\* the threshold during the last silenceDuration, with duration = time of
\* the call - recorded speech start; an analysis above the threshold
\* cancels the pending silence timer, keeps isSpeaking and calls no
\* onSpeechEnd.
C10_SpeechEndDebounced ==
    [][/\ \A t \in 1..MaxTime : SilenceTimeout(t) =>
             /\ lastLoud # Null /\ now - lastLoud >= SilenceDuration
             /\ speechStartTimeRef # Null
             /\ vdCalls'[Len(vdCalls')] =
                   [kind |-> "end", duration |-> now - speechStartTimeRef]
       /\ \A e \in EnergyLevels : (e > SpeechThreshold /\ Analysed(e)) =>
             /\ silenceTimers' = {} /\ silenceTimerRef' = Null
             /\ vdState.isSpeaking => vdState'.isSpeaking
             /\ \A k \in 1..Len(vdCalls') : k > Len(vdCalls) => vdCalls'[k].kind = "start"]_vars

\* A speech segment that went on after its first tick has just been ended
\* by a silence timeout.
C10_Witness ==
    /\ Len(vdCalls) > 0
    /\ vdCalls[Len(vdCalls)].kind = "end"
    /\ lastLoud # Null /\ now - lastLoud >= SilenceDuration
    /\ vdCalls[Len(vdCalls)].duration > now - lastLoud
    /\ vdState.isListening /\ ~vdState.isSpeaking

\* Resources of the voice detector
LiveMics == {i \in ListenIds : micStreams[i] = "live"}
OpenContexts == {i \in ListenIds : audioContexts[i] = "running"}
ScheduledLoops == {i \in ListenIds : loops[i] = "scheduled"}

\* A step that runs stopListening (called, or through the cleanup effect).
StopListeningRuns == StopListening \/ VdUnmount

\* C11 (as claimed): stopListening, in any state, leaves no live microphone
\* track, no open audio context, no scheduled analysis tick, no pending
\* silence timer and the baseline state; run again it changes nothing; and
\* no onSpeechStart / onSpeechEnd is called between a stopListening and the
\* next call of startListening.
C11_StopReleasesAll ==
    [][/\ StopListeningRuns =>
             /\ LiveMics' = {} /\ OpenContexts' = {} /\ ScheduledLoops' = {}
             /\ silenceTimers' = {}
             /\ vdMounted' => vdState' = Baseline
       /\ (StopListening /\ LiveMics = {} /\ OpenContexts = {} /\ ScheduledLoops = {}
             /\ silenceTimers = {} /\ vdState = Baseline /\ micStreamRef = Null) =>
             UNCHANGED <<vdState, micStreams, audioContexts, loops, silenceTimers>>
       /\ (~listening /\ overtaken = {i \in ListenIds : listens[i] # "idle"}) =>
             vdCalls' = vdCalls]_vars

\* C12: when getUserMedia is denied, startListening rejects, isListening is
\* left as it was (false unless an earlier start succeeded), no audio
\* context or analyser is created and no analysis loop is started.
C12_DeniedStartsNothing ==
    [][\A i \in ListenIds : MicDenied(i) =>
          /\ listens'[i] = "rejected"
          /\ audioContexts'[i] = "none" /\ micStreams'[i] = "none" /\ loops'[i] = "none"
          /\ UNCHANGED <<vdState, audioContextRef, audioContexts, analyserRef, micStreamRef,
                         micStreams, animationFrameRef, loops, vdCalls>>]_vars

\* A start was rejected and the detector is idle: not listening, nothing created.
C12_Witness ==
    /\ \E i \in ListenIds : listens[i] = "rejected"
    /\ vdMounted /\ ~vdState.isListening
    /\ analyserRef = Null /\ OpenContexts = {} /\ ScheduledLoops = {} /\ LiveMics = {}

\* C13 (as claimed): at most one microphone stream, one audio context and
\* one analysis loop are live.
C13_OneMicContextLoop ==
    /\ Cardinality(LiveMics) <= 1
    /\ Cardinality(OpenContexts) <= 1
    /\ Cardinality(ScheduledLoops) <= 1

\* ------------------------------------------------------------------------
\* useSpeechToText : properties
\* ------------------------------------------------------------------------
\* Engines that are recognising: started by a startRecognition that returned
\* true, start event delivered, not stopped, ended or errored.
RunningEngines == {e \in RecognitionIds : recognitions[e] = "running"}

\* C14 (as claimed): isListening() is true exactly while such an engine is
\* running; stopRecognition stops the engine whenever one is listening and
\* otherwise changes nothing.
C14_IsListeningExact ==
    /\ [](isListening <=> RunningEngines # {})
    /\ [][StopRecognition =>
            IF RunningEngines # {}
              THEN RunningEngines' = {} /\ ~isListening'
              ELSE UNCHANGED sttVars]_vars

FailedStart == \E outcome \in StartOutcomes \ {"ok"} : StartRecognition(outcome)

\* C15 (as claimed): a startRecognition that finds no engine, or whose
\* constructor or start() throws, calls onError once, returns false and
\* leaves the adapter not listening with no stored engine.
C15_FailedStartLeavesIdle ==
    [][FailedStart =>
          /\ Len(errorLog') = Len(errorLog) + 1
          /\ returned'[nRecognitions'] = FALSE
          /\ ~isListening' /\ recognitionRef' = Null]_vars

\* C15 (amended): such a call calls onError once, returns false, and leaves
\* the listening flag and the stored engine as they were, so an adapter that
\* was idle stays not listening with no stored engine; the engine of the
\* failed call is never stored.
C15_FailedStartChangesNothing ==
    [][FailedStart =>
          /\ Len(errorLog') = Len(errorLog) + 1
          /\ errorLog'[Len(errorLog')].src = nRecognitions'
          /\ returned'[nRecognitions'] = FALSE
          /\ UNCHANGED <<isListeningRef, recognitionRef>>
          /\ recognitionRef' # nRecognitions'
          /\ recognitions'[nRecognitions'] \in FailedStates]_vars

\* A first startRecognition failed in start(): one onError, false returned,
\* nothing stored.
C15_Witness ==
    /\ nRecognitions = 1 /\ recognitions[1] = "startThrew"
    /\ returned[1] = FALSE /\ Len(errorLog) = 1
    /\ ~isListening /\ recognitionRef = Null

\* C16: every error event of an engine is passed to onError and leaves
\* isListening() false; it becomes true again only by the start event of an
\* engine.
C16_ErrorEventStopsListening ==
    /\ [][\A e \in RecognitionIds : OnRecognitionError(e) =>
             /\ errorLog' = Append(errorLog, [src |-> e, error |-> "event"])
             /\ ~isListening']_vars
    /\ [][(~isListening /\ isListening') => \E e \in RecognitionIds : OnStart(e)]_vars

\* An engine that was listening reported an error and the adapter is not listening.
C16_Witness ==
    \E e \in RecognitionIds :
        /\ recognitions[e] = "errored" /\ returned[e] = TRUE
        /\ ~isListening
        /\ Len(errorLog) > 0 /\ errorLog[Len(errorLog)] = [src |-> e, error |-> "event"]

\* ------------------------------------------------------------------------
\* MeetingPage : inbound messages, properties
\* ------------------------------------------------------------------------
\* Nearest integer of a value in tenths, a half going up.
RoundHalfUp(x) == (x + 5) \div 10

NewestFirst(items) ==
    [k \in 1..(IF Len(items) < FeedbackKept THEN Len(items) ELSE FeedbackKept) |->
        items[Len(items) - k + 1]]

\* triggered = true and a non-empty feedback text
Qualifies(o) == Has(o) /\ Get(o).triggered = TRUE /\ Get(o).feedback # ""

\* C18: recentFeedback holds at most 5 items, they are the most recently
\* appended ones, newest first, and items are appended only by an analysis
\* message, one for each of its gemini and coaching members that has
\* triggered = true and a non-empty feedback text.
C18_RecentFeedback ==
    /\ [](Len(recentFeedback) <= 5 /\ recentFeedback = NewestFirst(appended))
    /\ [][appended' # appended =>
            LET m == lastMessage' IN
                /\ handled' # handled
                /\ m.type = "analysis"
                /\ Qualifies(m.gemini) \/ Qualifies(m.coaching)
                /\ Len(appended') - Len(appended) =
                      (IF Qualifies(m.gemini) THEN 1 ELSE 0) + (IF Qualifies(m.coaching) THEN 1 ELSE 0)
                /\ \A k \in (Len(appended) + 1)..Len(appended') :
                      appended'[k].text \in {"Smile", "Stand up"}]_vars

\* Six items were appended; the list holds the newest five, the coaching
\* item of the last message first.
C18_Witness ==
    /\ Len(appended) = 6 /\ Len(recentFeedback) = 5
    /\ recentFeedback[1] = appended[6] /\ recentFeedback[5] = appended[2]
    /\ recentFeedback[1].reason = "posture" /\ recentFeedback[2].reason = "ai_analysis"

\* Not valid JSON, or no known type, or an analysis message without data.
Malformed(m) ==
    \/ m.json = "invalid"
    \/ m.json = "null"
    \/ m.json = "object" /\ m.type \notin {"welcome", "pong", "analysis", "error"}
    \/ m.json = "object" /\ m.type = "analysis" /\ ~Has(m.data)

\* C19: a message that is not valid JSON, has an unknown type, or is an
\* analysis message without data changes none of stats, lastAnalysis,
\* recentFeedback, the error banner, connectionStatus and the socket, so the
\* socket stays open for the messages that follow.
C19_MalformedDropped ==
    [][\A s \in SocketIds, m \in {x \in DispatchMessages : Malformed(x)} :
          OnMessage(s, m) =>
              /\ UNCHANGED <<stats, lastAnalysis, recentFeedback, error, connectionStatus,
                             sockets, wsRef, geminiResponse, coordinateLogs, overlay, speech>>
              /\ sockets'[s].readyState = "OPEN"]_vars

\* A malformed message was dropped after one analysis message and before another.
C19_Witness ==
    /\ Len(handled) = 3
    /\ handled[1] = "analysis" /\ handled[2] = "dropped" /\ handled[3] = "analysis"
    /\ Has(lastAnalysis) /\ stats.energy = "High"
    /\ connectionStatus = "connected" /\ error = "none"

\* ------------------------------------------------------------------------
\* MeetingPage : skeleton renderer, properties
\* ------------------------------------------------------------------------
LinesDrawn == {k \in 1..Len(drawn.ops) : drawn.ops[k].op = "line"}
CirclesDrawn == {k \in 1..Len(drawn.ops) : drawn.ops[k].op = "circle"}

\* Present (not null, not past the end) with confidence above 0.2
Confident(keypoints, i) ==
    /\ i < Len(keypoints)
    /\ ~keypoints[i + 1].isNull
    /\ keypoints[i + 1].confidence > 20

PairsToDraw(keypoints) ==
    {n \in 1..Len(POSE_PAIRS) :
        Confident(keypoints, POSE_PAIRS[n][1]) /\ Confident(keypoints, POSE_PAIRS[n][2])}
PointsToDraw(keypoints) == {i \in 0..(Len(keypoints) - 1) : Confident(keypoints, i)}

\* C20: a call of drawSkeleton draws exactly one segment per POSE_PAIRS pair
\* whose two endpoints are present with confidence above 0.2, exactly one
\* circle per present keypoint with confidence above 0.2, and every segment
\* before every circle; with no confidence above 0.2 it draws nothing, and
\* with 18 confident points it draws 17 segments.
C20_SkeletonDrawn ==
    drawn.called =>
        LET kp == drawn.keypoints IN
        /\ \A n \in 1..Len(POSE_PAIRS) :
              Cardinality({k \in LinesDrawn : drawn.ops[k].a = POSE_PAIRS[n][1]
                                              /\ drawn.ops[k].b = POSE_PAIRS[n][2]})
                 = IF n \in PairsToDraw(kp) THEN 1 ELSE 0
        /\ Cardinality(LinesDrawn) = Cardinality(PairsToDraw(kp))
        /\ \A i \in 0..NumKeypoints :
              Cardinality({k \in CirclesDrawn : drawn.ops[k].a = i})
                 = IF i \in PointsToDraw(kp) THEN 1 ELSE 0
        /\ Cardinality(CirclesDrawn) = Cardinality(PointsToDraw(kp))
        /\ \A l \in LinesDrawn, c \in CirclesDrawn : l < c
        /\ (\A i \in 0..(Len(kp) - 1) : kp[i + 1].isNull \/ kp[i + 1].confidence < 20) =>
              LinesDrawn = {} /\ CirclesDrawn = {}
        /\ (Len(kp) = 18 /\ \A i \in 0..17 : Confident(kp, i)) => Cardinality(LinesDrawn) = 17

\* An 18-point list with one null entry and the rest confident was drawn:
\* 17 circles, and fewer than 17 segments, all before the circles.
C20_Witness ==
    /\ drawn.called
    /\ Len(drawn.keypoints) = 18
    /\ Cardinality({i \in 0..17 : drawn.keypoints[i + 1].isNull}) = 1
    /\ Cardinality(CirclesDrawn) = 17
    /\ Cardinality(LinesDrawn) \in 13..16

\* ------------------------------------------------------------------------
\* HomePage : properties
\* ------------------------------------------------------------------------
CreatePending(i) == creates[i] \in {"awaitFetch", "awaitJson"}
NavigatedBy(i) == {k \in 1..Len(navigateCalls) : navigateCalls[k].by = i}

\* C21: a createMeeting call that gets a successful response calls
\* onNavigate once, with /meet/<session_id>, and shows no alert; one that gets
\* a response that is not ok, or whose fetch or body parse fails, shows one
\* alert and does not navigate; isCreating is true while a call is pending
\* and false once it has ended.
C21_CreateOneOutcome ==
    /\ [](\A i \in CreateIds :
            /\ Cardinality(NavigatedBy(i)) = IF creates[i] = "navigated" THEN 1 ELSE 0
            /\ \A k \in NavigatedBy(i) :
                  navigateCalls[k].path.prefix = "/meet/" /\ navigateCalls[k].path.id \in SessionIds)
    /\ [](alerts = Cardinality({i \in CreateIds : creates[i] \in CreateEnds \ {"navigated"}}))
    /\ []((\E i \in CreateIds : CreatePending(i)) => isCreating)
    /\ [][\A i \in CreateIds : (CreatePending(i) /\ ~CreatePending(i)') => ~isCreating']_vars
    /\ [][\A i \in CreateIds : (CreatePending(i) /\ creates'[i] = "navigated") =>
              (alerts' = alerts /\ Len(navigateCalls') = Len(navigateCalls) + 1)]_vars
    /\ [][\A i \in CreateIds : (CreatePending(i) /\ creates'[i] \in CreateEnds \ {"navigated"}) =>
              (alerts' = alerts + 1 /\ navigateCalls' = navigateCalls)]_vars

\* One call ended in an alert and a later one navigated; no call is pending.
C21_Witness ==
    /\ creates[1] = "not ok" /\ creates[2] = "navigated"
    /\ alerts = 1 /\ Len(navigateCalls) = 1
    /\ navigateCalls[1] = [by |-> 2, path |-> MeetPath("abc")]
    /\ ~isCreating

\* ------------------------------------------------------------------------
\* MeetingPage : verifyMeeting, properties
\* ------------------------------------------------------------------------
VerifyNavigations == {k \in 1..Len(navigateCalls) : navigateCalls[k].by = "verify"}

\* C22: when the lookup answers with a status that is not ok, or fails, the
\* error is set and one timer is armed that calls onNavigate('/') once, 2
\* seconds later or more; when the lookup succeeds the meeting link is set
\* and the verification never navigates.
C22_VerifyMeeting ==
    /\ [][(verify \in {"awaitFetch", "awaitJson"} /\ verify' \in {"not ok", "fetch failed", "json failed"}) =>
            /\ mounted => error' \in {"Meeting not found or expired", "Failed to verify meeting"}
            /\ redirectTimers' = Append(redirectTimers, [armed |-> clock, state |-> "pending"])
            /\ navigateCalls' = navigateCalls]_vars
    /\ [][\A k \in VerifyNavigations' \ VerifyNavigations :
            /\ navigateCalls'[k].path = RootPath
            /\ \E t \in 1..Len(redirectTimers) :
                  /\ redirectTimers[t].state = "pending" /\ redirectTimers'[t].state = "fired"
                  /\ clock >= redirectTimers[t].armed + 2]_vars
    /\ [](Cardinality(VerifyNavigations) <= 1)
    /\ [](Cardinality(VerifyNavigations)
            = Cardinality({t \in 1..Len(redirectTimers) : redirectTimers[t].state = "fired"}))
    /\ [](Len(redirectTimers) = IF verify \in {"not ok", "fetch failed", "json failed"} THEN 1 ELSE 0)
    /\ [][(verify = "awaitJson" /\ verify' = "verified") =>
            /\ mounted => meetingLink' = "link"
            /\ UNCHANGED <<redirectTimers, navigateCalls>>]_vars
    /\ [](verify = "verified" => VerifyNavigations = {} /\ redirectTimers = << >>)

\* The lookup was answered "not found": the error is shown, and two seconds
\* later the page was sent home once.
C22_Witness ==
    /\ verify = "not ok" /\ mounted /\ error = "Meeting not found or expired"
    /\ redirectTimers = <<[armed |-> 0, state |-> "fired"]>> /\ clock = 2
    /\ navigateCalls = <<[by |-> "verify", path |-> RootPath]>>

\* An analysis message with a data member.
IsAnalysis(m) == m.json = "object" /\ m.type = "analysis" /\ Has(m.data)

\* The latest analysis message among the first k received, 0 if there is none.
LastAnalysisAmong(k) ==
    LET S == {i \in 1..k : IsAnalysis(received[i])}
    IN  IF S = {} THEN 0 ELSE CHOOSE i \in S : \A j \in S : j <= i

\* The feedback texts message m carries.
FeedbackTexts(m) ==
    (IF Has(m.gemini) THEN {Get(m.gemini).feedback} ELSE {})
    \cup (IF Has(m.coaching) THEN {Get(m.coaching).feedback} ELSE {})

\* C23: the messages arriving on one MeetingPage socket are processed one at
\* a time in arrival order: the k-th message handled is the k-th received,
\* stats and lastAnalysis are those of the last analysis message handled
\* (the initial ones before the first), and recentFeedback holds feedback
\* in reverse arrival order, each item from the message it is stamped with.
C23_ArrivalOrder ==
    mounted =>
        LET k == Len(handled)
            a == LastAnalysisAmong(IF k < Len(received) THEN k ELSE Len(received))
        IN  /\ k <= Len(received)
            /\ k > 0 => lastMessage = received[k]
            /\ \A j \in 1..k : (handled[j] = "analysis") <=> IsAnalysis(received[j])
            /\ IF a = 0
                 THEN lastAnalysis = Absent /\ stats = InitialStats
                 ELSE LET d == Get(received[a].data)
                      IN  /\ lastAnalysis = Some(d)
                          /\ stats.frameCount = d.frame_num
                          /\ stats.balance = Get(d.balance)
                          /\ stats.energy = Get(d.movement)
                          /\ stats.emotion = Get(d.emotion).emotion
                          /\ stats.emotionConfidence = Get(d.emotion).confidence
                          /\ stats.posture = Get(d.posture).status
                          /\ stats.postureAngle = Get(d.posture).angle
            /\ \A i \in DOMAIN recentFeedback :
                  /\ recentFeedback[i].time \in 1..k
                  /\ IsAnalysis(received[recentFeedback[i].time])
                  /\ recentFeedback[i].text \in FeedbackTexts(received[recentFeedback[i].time])
                  /\ i > 1 => recentFeedback[i - 1].time >= recentFeedback[i].time
            /\ a > 0 /\ FeedbackTexts(received[a]) # {} =>
                  recentFeedback # << >> /\ recentFeedback[1].time = a

\* Three messages were queued and handled: an analysis message with two
\* feedback items, a second analysis message with one, and an error message.
C23_Witness ==
    /\ Len(received) = 3 /\ Len(handled) = 3
    /\ handled = <<"analysis", "analysis", "error">>
    /\ lastAnalysis = Some(OtherPayload)
    /\ stats.frameCount = 9 /\ stats.balance = -725
    /\ Len(recentFeedback) = 3
    /\ recentFeedback[1].text = "Slow down" /\ recentFeedback[1].time = 2
    /\ recentFeedback[2].text = "Stand up" /\ recentFeedback[2].time = 1
    /\ recentFeedback[3].text = "Smile" /\ recentFeedback[3].time = 1

\* C24 (as claimed): when stopStreaming returns the overlay canvas is
\* blank, no frame interval is active, no reconnect timer is pending, no
\* media track is live, no socket is open or connecting, and the speech
\* that was in flight has been replaced by the closing announcement.
C24_StopResetsAll ==
    [][StopButton =>
          /\ overlay' = << >>
          /\ ActiveIntervals' = {}
          /\ PendingTimers' = {}
          /\ LiveStreams' = {}
          /\ LiveSockets' = {}
          /\ speech' = "ended"]_vars

\* The latest message is an analysis message that carries a keypoint list.
CarriesKeypoints(m) == IsAnalysis(m) /\ Has(Get(m.data).keypoints)

\* C25 (as claimed): once the page has handled an analysis message that
\* carries a keypoint list, the overlay shows the lines and circles of that
\* list and nothing else; after an empty list, or one with no keypoint above
\* the confidence floor, it is blank.
C25_OverlayShowsLatest ==
    [][(handled' # handled /\ mounted /\ CarriesKeypoints(lastMessage')) =>
          LET keypoints == Get(Get(lastMessage'.data).keypoints)
          IN  overlay' = IF keypoints = << >> THEN << >>
                         ELSE Tail(drawSkeleton(keypoints, TRUE, TRUE))]_vars

\* A message of the given type.
OfType(m, types) == m.json = "object" /\ m.type \in types

\* C26: a welcome or pong message leaves stats, lastAnalysis,
\* recentFeedback, the error banner and connectionStatus unchanged; an error
\* message sets the banner to its text and changes nothing else of the page
\* (socket, connectionStatus, isStreaming, frame interval, analysis state);
\* a frame tick after it, on the open socket, still sends a frame.
C26_ControlAndError ==
    /\ [][handled' # handled =>
            LET m == lastMessage' IN
                /\ OfType(m, {"welcome", "pong"}) =>
                      UNCHANGED <<stats, lastAnalysis, recentFeedback, error, connectionStatus>>
                /\ OfType(m, {"error"}) =>
                      /\ (Has(m.message) /\ Get(m.message) # "") => error' = Get(m.message)
                      /\ UNCHANGED <<mounted, isStreaming, connectionStatus, wsRef, sockets, nSockets,
                                     streamRef, streams, frameIntervalRef, intervals,
                                     reconnectTimeoutRef, timers, videoSrc, speech>>
                      /\ UNCHANGED <<stats, lastAnalysis, recentFeedback, geminiResponse,
                                     coordinateLogs, overlay>>]_vars
    /\ [][(handled' = handled /\ sockets' # sockets /\ lastMessage.type = "error") =>
            /\ wsRef # Null /\ wsRef' = wsRef
            /\ sockets[wsRef].readyState = "OPEN"
            /\ Frames(sockets'[wsRef]) = Frames(sockets[wsRef]) + 1]_vars

\* The banner shows the text of the error message handled last, the socket
\* is still open, the interval still active, and a frame went out after it.
C26_Witness ==
    /\ handled = <<"error">> /\ lastMessage.message = Some("overload")
    /\ error = "overload"
    /\ wsRef = 1 /\ sockets[1].readyState = "OPEN" /\ Frames(sockets[1]) = 1
    /\ isStreaming /\ connectionStatus = "connected" /\ intervals[1] = "active"

\* A tick of some interval reaches ws.send, which throws / returns.
SendThrew == \E k \in StartIds : SendTick(k, TRUE)
SendReturned == \E k \in StartIds : SendTick(k, FALSE)

\* C27: a tick whose ws.send throws changes nothing of the page: the socket
\* reference, the sockets, connectionStatus, isStreaming and the frame
\* interval are as before; the interval keeps ticking, and a later tick
\* whose send returns puts its frame on the same socket.
C27_SendFailureAbsorbed ==
    /\ [][SendThrew =>
            /\ UNCHANGED <<wsRef, sockets, nSockets, connectionStatus, isStreaming,
                           intervals, frameIntervalRef, error, timers, reconnectTimeoutRef>>
            /\ FrameReady'
            /\ ActiveIntervals' # {}]_vars
    /\ [][(SendReturned /\ sendLog # << >> /\ sendLog[Len(sendLog)] = "threw") =>
            /\ wsRef' = wsRef
            /\ Frames(sockets'[wsRef]) = Frames(sockets[wsRef]) + 1]_vars

\* A send threw, and the following tick sent its frame on the open socket
\* of the running session.
C27_Witness ==
    /\ sendLog = <<"threw", "sent">>
    /\ wsRef = 1 /\ sockets[1].readyState = "OPEN" /\ Frames(sockets[1]) = 1
    /\ isStreaming /\ connectionStatus = "connected" /\ intervals[1] = "active"

\* The callbacks made by the step, oldest first.
NewCalls == SubSeq(vdCalls', Len(vdCalls) + 1, Len(vdCalls'))

\* The step is a stopListening (called directly or by the unmount cleanup),
\* which ends the listening session.
SessionEnds == StopListening \/ VdUnmount

\* C28: onSpeechStart is called exactly once for each transition from
\* not-speaking to speaking and by nothing else (so not by a tick above the
\* threshold while speaking); onSpeechEnd is called exactly with each
\* transition back; between two stopListening calls isSpeaking changes
\* only together with such a callback, so that the callbacks of one session
\* alternate, beginning with onSpeechStart.
C28_StartOncePerTransition ==
    /\ [][Len(NewCalls) <= 1]_vars
    /\ [][(NewCalls # << >> /\ NewCalls[1].kind = "start") =>
             ~vdState.isSpeaking /\ vdState'.isSpeaking]_vars
    /\ [][(NewCalls # << >> /\ NewCalls[1].kind = "end") =>
             vdState.isSpeaking /\ ~vdState'.isSpeaking]_vars
    /\ [][(~vdState.isSpeaking /\ vdState'.isSpeaking) =>
             Len(NewCalls) = 1 /\ NewCalls[1].kind = "start"]_vars
    /\ [][(vdState.isSpeaking /\ ~vdState'.isSpeaking) =>
             \/ Len(NewCalls) = 1 /\ NewCalls[1].kind = "end"
             \/ SessionEnds /\ NewCalls = << >>]_vars

\* Within one session: speech started, ended after the silence, and started
\* again; the second start came from one loud tick while not speaking.
C28_Witness ==
    /\ Len(vdCalls) = 3
    /\ vdCalls[1].kind = "start" /\ vdCalls[2].kind = "end" /\ vdCalls[3].kind = "start"
    /\ nListens = 1 /\ listening /\ vdState.isSpeaking

\* analyzeAudio runs on a sample whose energy is exactly speechThreshold.
ThresholdTick ==
    /\ vdMounted => vdState'.energy = SpeechThreshold
    /\ \/ \E l \in ListenIds : AudioTick(l, SpeechThreshold) /\ analyserRef # Null
       \/ \E i \in ListenIds : MicGranted(i, SpeechThreshold)

\* C29: a tick whose energy equals speechThreshold is silence: it calls no
\* callback and does not start speaking; while speaking with no timer
\* pending it arms the silence timer, and a pending one is left as it is.
\* At most one silence timer is pending, the one silenceTimerRef holds.
C29_ThresholdIsSilence ==
    /\ [](silenceTimers = {} \/ silenceTimers = {silenceTimerRef})
    /\ [](Cardinality(silenceTimers) <= 1)
    /\ [][ThresholdTick =>
            /\ NewCalls = << >>
            /\ vdState'.isSpeaking = vdState.isSpeaking
            /\ speechStartTimeRef' = speechStartTimeRef
            /\ IF vdMounted /\ vdState.isSpeaking /\ silenceTimers = {}
                 THEN silenceTimers' = {now} /\ silenceTimerRef' = now
                 ELSE UNCHANGED <<silenceTimers, silenceTimerRef>>]_vars

\* Speech had started earlier; the latest sample was exactly at the
\* threshold and the silence timer armed at this instant is pending.
C29_Witness ==
    /\ vdState.isSpeaking /\ vdState.energy = SpeechThreshold
    /\ now > 1 /\ speechStartTimeRef = 1
    /\ silenceTimers = {now} /\ silenceTimerRef = now
    /\ lastLoud = 1

\* The circles drawn for keypoint i, and the segments that end at it.
CirclesAt(i) == {k \in DOMAIN drawn.ops : drawn.ops[k].op = "circle" /\ drawn.ops[k].a = i}
LinesAt(i) ==
    {k \in DOMAIN drawn.ops :
        drawn.ops[k].op = "line" /\ (drawn.ops[k].a = i \/ drawn.ops[k].b = i)}

\* C30: drawSkeleton gives every drawn keypoint exactly one colour by its
\* confidence c: the high one (red) when c > 0.7, the medium one (yellow)
\* when 0.5 < c <= 0.7, the low one (orange) when 0.2 < c <= 0.5; a keypoint
\* that is null or has c <= 0.2 gets no circle and ends no segment.
C30_ColourBands ==
    drawn.called =>
        \A i \in 0..(Len(drawn.keypoints) - 1) :
            LET pt == drawn.keypoints[i + 1]
                c == pt.confidence
            IN  IF pt.isNull \/ c <= 20
                  THEN CirclesAt(i) = {} /\ LinesAt(i) = {}
                  ELSE /\ Cardinality(CirclesAt(i)) = 1
                       /\ \A k \in CirclesAt(i) :
                             /\ c > 70 => drawn.ops[k].color = "red"
                             /\ (50 < c /\ c <= 70) => drawn.ops[k].color = "yellow"
                             /\ (20 < c /\ c <= 50) => drawn.ops[k].color = "orange"

\* Confidences 0.7, 0.71 and 0.2 were drawn: a yellow and a red circle
\* joined by one segment, and nothing at the third keypoint.
C30_Witness ==
    /\ drawn.called
    /\ drawn.keypoints = <<Point(70), Point(71), Point(20)>>
    /\ drawn.ops = <<ClearOp, LineOp(0, 1),
                     [op |-> "circle", a |-> 0, b |-> 0, color |-> "yellow"],
                     [op |-> "circle", a |-> 1, b |-> 1, color |-> "red"]>>

\* C31 (as claimed): after an analysis message the stats are updated and the
\* render that follows leaves the page mounted with its socket open, also
\* when the payload lacks movement, symmetry or activities, so that later
\* messages are still handled.
C31_PartialPayloadHandled ==
    /\ [][(handled' # handled /\ IsAnalysis(lastMessage')) =>
             stats'.balance = OrNum(Get(lastMessage'.data).balance, 0)]_vars
    /\ [][Render => (mounted' /\ WsOpen')]_vars

\* The message has a keypoint that is not null with confidence above 0.2.
HasConfidentKeypoint(m) ==
    /\ CarriesKeypoints(m)
    /\ \E k \in DOMAIN Get(Get(m.data).keypoints) :
          LET pt == Get(Get(m.data).keypoints)[k] IN ~pt.isNull /\ pt.confidence > 20

\* C32: coordinateLogs never holds more than 30 entries and is ordered
\* newest first; it changes only when an analysis message with at least one
\* keypoint of confidence above 0.2 is handled, which puts one entry for that
\* message in front of the 29 newest earlier ones.
C32_CoordinateLogs ==
    /\ [](Len(coordinateLogs) <= 30)
    /\ [](\A k \in 2..Len(coordinateLogs) : coordinateLogs[k - 1].time >= coordinateLogs[k].time)
    /\ [][coordinateLogs' # coordinateLogs =>
            /\ handled' # handled
            /\ HasConfidentKeypoint(lastMessage')
            /\ coordinateLogs'[1].time = Len(handled')
            /\ coordinateLogs'[1].frame = Get(lastMessage'.data).frame_num
            /\ Len(coordinateLogs') = (IF Len(coordinateLogs) < 30 THEN Len(coordinateLogs) + 1 ELSE 30)
            /\ \A k \in 2..Len(coordinateLogs') : coordinateLogs'[k] = coordinateLogs[k - 1]]_vars
    /\ [][(handled' # handled /\ mounted /\ HasConfidentKeypoint(lastMessage')) =>
            coordinateLogs' # coordinateLogs]_vars

\* The log was full; two more frames with confident keypoints were logged
\* and a frame without any was not: 30 entries, the two new ones in front.
C32_Witness ==
    /\ Len(handled) = 3
    /\ Len(coordinateLogs) = 30
    /\ coordinateLogs[1].time > coordinateLogs[2].time
    /\ coordinateLogs[2].time > 0
    /\ coordinateLogs[3].time = 0 /\ coordinateLogs[30].time = 0

\* A callback (onopen, or onerror / onclose) of socket s runs.
SocketCallback(s) ==
    OnOpen(s) \/ \E o \in {"clean", "unclean", "failed"} : OnClose(s, o)

\* C33 (as claimed): while the page is mounted connectionStatus is
\* "connected" only if the socket held in wsRef is open, and a callback of a
\* socket that wsRef no longer holds leaves connectionStatus, the error
\* banner and the reconnect timer as they are.
C33_StatusOfCurrentSocket ==
    /\ []((mounted /\ connectionStatus = "connected") => WsOpen)
    /\ [][\A s \in SocketIds :
            (s # wsRef /\ SocketCallback(s)) =>
                UNCHANGED <<connectionStatus, error, timers, reconnectTimeoutRef>>]_vars

\* C34 (as claimed): an analysis message whose frame_num is missing or 0
\* leaves the displayed frame count at the value the previous analysis
\* message set.
C34_FrameCountKept ==
    [][(handled' # handled /\ IsAnalysis(lastMessage')
          /\ Get(lastMessage'.data).frame_num = 0)
         => stats'.frameCount = stats.frameCount]_vars

\* C35 (as claimed): a redirect timer fires only while the page on show is
\* the meeting page whose verification failed; once another meeting page
\* has been opened, a timer of the earlier page does not call onNavigate.
C35_StaleTimerHarmless ==
    [][\A t \in CreateIds :
          RedirectTimeout(t) => verify \in {"not ok", "fetch failed", "json failed"}]_vars

\* Engines that recognise or are about to: start() was called, and neither
\* stop() nor an error or end event followed.
EnginesOn == {e \in RecognitionIds : recognitions[e] \in {"starting", "running"}}

\* C37 (as claimed): at most one recognition engine is running at any time,
\* and a stopRecognition leaves no engine on, also when it comes before the
\* start event of an engine whose startRecognition returned true.
C37_OneEngineStopStops ==
    /\ [](Cardinality(RunningEngines) <= 1)
    /\ [][StopRecognition => EnginesOn' = {}]_vars

\* Frame loops of the mock-data dashboard whose next frame is requested.
ActiveLoops == {l \in LoopIds : mockLoops[l] = "pending"}

\* C36 (as claimed): in the mock-data dashboard at most one frame loop is
\* active while streaming, and once streaming has stopped no frame is
\* processed: the frame count stays and nothing is sent on a video socket.
C36_OneLoopNoneAfterStop ==
    /\ [](mockIsStreaming => Cardinality(ActiveLoops) <= 1)
    /\ [][~mockIsStreaming =>
            (mockFrameCount' = mockFrameCount /\ mockSent' = mockSent)]_vars

\* Sessions of the frame-streaming dashboard with a resource still live.
DashLive ==
    {i \in DashIds :
        \/ dashSessions[i].tracks = "live"
        \/ dashSessions[i].video \in {"CONNECTING", "OPEN"}
        \/ dashSessions[i].audio \in {"CONNECTING", "OPEN"}
        \/ dashSessions[i].context = "running"
        \/ dashSessions[i].interval = "active"}

\* C38 (as claimed): stopStreaming of the frame-streaming dashboard resets
\* lastAnalysis and connectionStatus, and whenever the latest of the
\* start/stop calls is a stop, no stream, socket, audio context or frame
\* interval is live.
C38_StopReleasesAll ==
    /\ [][DashStopStreaming =>
            (~dashLastAnalysis' /\ dashConnectionStatus' = "disconnected")]_vars
    /\ [](dashLastCall = "stop" => DashLive = {})

====
